---- MODULE Spec2Model ----
(***************************************************************************)
(* A model of the C-to-Java translation tools of rt3/tools/python/lib:     *)
(*   - cparser/tokenizer.py : Macro, Tokenizer (preprocessor layer)        *)
(*   - cparser/parser.py    : the expression parser                        *)
(*   - codegen/java_type_converter.py : translate, translate_call and the  *)
(*     type-map cache                                                      *)
(*   - pegen/action_translator.py : ActionTranslator.translate_type        *)
(*                                                                         *)
(* A token is the tuple <<kind, pos, text>> of the source.  The tokenizer  *)
(* model starts from the raw token stream that RawTokenizer delivers; pos  *)
(* is the ordinal of the token in that stream.                             *)
(***************************************************************************)
EXTENDS Integers, Sequences, FiniteSets, TLC

VARIABLES
    source_text,    \* the characters of the text given to a Tokenizer, when it is
                    \* scanned character by character
    source,         \* RawTokenizer.source, as the raw tokens it yields
    index,          \* RawTokenizer.index: raw tokens consumed so far
    cache,          \* Tokenizer.cache: tokens pushed back for re-scanning
    if_stack,       \* Tokenizer.if_stack
    macros,         \* Tokenizer.macros: name -> Macro
    out,            \* the tokens returned by next(tokenizer) so far
    status,         \* "running", "done" (StopIteration) or the exception
    type_map,       \* java_type_converter.type_map
    functions,      \* java_type_converter.functions
    unknown_types,  \* java_type_converter.unknown_types
    at_type_map,    \* ActionTranslator.type_map
    cache_file,     \* the text of the file at _CACHE_FILE_PATH, if any
    cache_loaded,   \* java_type_converter._CACHE_FILE_LOADED
    ret,            \* what the last call of the type translator returned or raised
    process,        \* the interpreter running a tool: how far it is, and
                    \* what has happened to the cache file since it started
    classes,        \* the JavaClass and JavaInterface objects, by name
    method,         \* a JavaMethod under construction
    emitted,        \* the Java text that the last generating call returned
    jvm,            \* the run of the emitted Java code: its objects and calls
    at_methods,     \* ActionTranslator.methods
    parser_context  \* a ParserContext (ActionTranslator.parser_context): its
                    \* types, struct tags and ast; or the Parser at work

tokVars == <<source_text, source, index, cache, if_stack, macros, out, status>>
ttVars == <<type_map, functions, unknown_types, at_type_map, cache_file,
            cache_loaded, ret>>
javaVars == <<classes, method, emitted, jvm>>
actVars == <<at_methods, parser_context>>
genVars == <<process, javaVars, actVars>>
ttVarsButRet == <<type_map, functions, unknown_types, at_type_map, cache_file,
                  cache_loaded>>
vars == <<tokVars, ttVars, genVars>>

-----------------------------------------------------------------------------
(* Python helpers *)

None == <<>>

\* no tool is running and nothing is being generated
NoGen ==
    /\ process = <<>> /\ classes = <<>> /\ method = <<>> /\ emitted = <<>>
    /\ jvm = <<>>
    /\ at_methods = <<>> /\ parser_context = <<>>
Some(v) == <<v>>
IsNone(o) == o = <<>>
TheValue(o) == o[1]

EmptyDict == <<>>
\* d.setdefault(k, v): an entry that exists is kept
Put_if_absent(d, k, v) == d @@ (k :> v)
\* d[k] = v
Put(d, k, v) == (k :> v) @@ d

Last(s) == s[Len(s)]
ButLast(s) == SubSeq(s, 1, Len(s) - 1)

RECURSIVE Join(_)
Join(line) == IF line = <<>> THEN "" ELSE Head(line) \o Join(Tail(line))

RECURSIVE Flatten(_)
Flatten(ss) == IF ss = <<>> THEN <<>> ELSE Head(ss) \o Flatten(Tail(ss))

\* the first position of x in s (s.index(x) + 1); 0 when x is not in s
IndexOf(s, x) ==
    IF \E k \in 1..Len(s) : s[k] = x
    THEN CHOOSE k \in 1..Len(s) : s[k] = x /\ \A j \in 1..(k-1) : s[j] # x
    ELSE 0

-----------------------------------------------------------------------------
(* cparser/tokenizer.py *)

KEYWORDS ==
    {"auto", "break", "case", "const", "continue", "do", "default", "else",
     "enum", "extern", "for", "if", "goto", "register", "return", "sizeof",
     "static", "struct", "switch", "typedef", "union", "volatile", "while"}

Tok(kind, pos, text) == <<kind, pos, text>>
KindOf(t) == t[1]
PosOf(t) == t[2]
TextOf(t) == t[3]

\* Macro.__init__
Macro(name, args, body) ==
    LET var_args == ~IsNone(args) /\ Len(TheValue(args)) > 0
                    /\ Last(TheValue(args)) = "..."
    IN [name |-> name,
        args |-> IF var_args THEN Some(ButLast(TheValue(args))) ELSE args,
        body |-> body,
        var_args |-> var_args]

\* the state of a Tokenizer that the operators below thread through
TState(i, c, s, m) == [index |-> i, cache |-> c, if_stack |-> s, macros |-> m]

Visible(st) == Len(st.if_stack) = 0 \/ Last(st.if_stack)

\* results: kind "tok" (a token is returned), "stop" (StopIteration) or
\* "err" (any other exception, named in exc)
RTok(t, st) == [kind |-> "tok", tok |-> t, exc |-> "", st |-> st]
RStop(st) == [kind |-> "stop", tok |-> <<>>, exc |-> "StopIteration", st |-> st]
RErr(e, st) == [kind |-> "err", tok |-> <<>>, exc |-> e, st |-> st]

\* the value of eval(text) as a condition, for a line of one token
NumberIsTrue(text) == text \notin {"0", "00", "0.0", "0x0"}

\* eval(text) of a name that is a keyword of Python is a SyntaxError; the
\* names that Python defines (True, int, ...) are not among the inputs
PythonKeywords ==
    {"and", "as", "assert", "async", "await", "break", "class", "continue",
     "def", "del", "elif", "else", "except", "finally", "for", "from",
     "global", "if", "import", "in", "is", "lambda", "nonlocal", "not", "or",
     "pass", "raise", "return", "try", "while", "with", "yield"}

\* a string literal that holds a newline is no expression for eval
HasNewline(text) == \E k \in 1..Len(text) : SubSeq(text, k, k) = "\n"

\* Tokenizer.__next__, lines 381-390: the rest of the directive's line
LineEnd(src, i) ==
    IF \E k \in (i+1)..Len(src) : KindOf(src[k]) = "NEWLINE"
    THEN CHOOSE k \in (i+1)..Len(src) :
            /\ KindOf(src[k]) = "NEWLINE"
            /\ \A j \in (i+1)..(k-1) : KindOf(src[j]) # "NEWLINE"
    ELSE 0

Texts(tokens) == [k \in 1..Len(tokens) |-> TextOf(tokens[k])]

\* line[2:i:2] with i the position of the first ')'
SliceArgs(line, i) ==
    [k \in 1..((i - 1) \div 2) |-> line[2 * k + 1]]

\* Tokenizer.__next__, lines 391-424: one directive with its line.
\* kind "cont" stands for reaching `return self.__next__()` of line 424.
Directive(src, st0, token) ==
    LET nl == LineEnd(src, st0.index)
        tokens == SubSeq(src, st0.index + 1, nl - 1)
        line == Texts(tokens)
        text == Join(line)
        directive == TextOf(token)
        pos == PosOf(token)
        st == [st0 EXCEPT !.index = nl]
        Cont(s) == [kind |-> "cont", tok |-> <<>>, exc |-> "", st |-> s]
    IN
    IF nl = 0 THEN RStop([st0 EXCEPT !.index = Len(src)])
    ELSE IF directive = "#if" THEN
        IF Len(line) = 0 THEN RErr("IndexError", st)
        ELSE IF line[1] = "defined" /\ Len(line) < 2 THEN RErr("IndexError", st)
        ELSE IF line[1] = "defined" /\ line[2] = "(" /\ Len(line) < 4
            THEN RErr("IndexError", st)
        ELSE IF line[1] = "defined" /\ line[2] = "(" /\ line[4] = ")" THEN
            Cont([st EXCEPT !.if_stack = Append(@, line[3] \in DOMAIN st.macros)])
        ELSE IF Len(line) = 1 THEN
            IF KindOf(tokens[1]) = "NUMBER"
            THEN Cont([st EXCEPT !.if_stack = Append(@, NumberIsTrue(text))])
            ELSE IF KindOf(tokens[1]) = "STRING" /\ ~HasNewline(text)
            THEN Cont([st EXCEPT !.if_stack = Append(@, Len(text) > 2)])
            ELSE IF KindOf(tokens[1]) = "ELLIPSIS"
            THEN Cont([st EXCEPT !.if_stack = Append(@, TRUE)])
            ELSE IF KindOf(tokens[1]) = "IDENTIFIER" /\ text \notin PythonKeywords
            THEN RErr("NameError", st)
            ELSE RErr("SyntaxError", st)
        ELSE RErr("SyntaxError", st)
    ELSE IF directive = "#ifdef" THEN
        Cont([st EXCEPT !.if_stack = Append(@, text \in DOMAIN st.macros)])
    ELSE IF directive = "#ifndef" THEN
        Cont([st EXCEPT !.if_stack = Append(@, text \notin DOMAIN st.macros)])
    ELSE IF directive = "#endif" THEN
        IF Len(st.if_stack) = 0 THEN RErr("IndexError", st)
        ELSE Cont([st EXCEPT !.if_stack = ButLast(@)])
    ELSE IF directive = "#else" THEN
        IF Len(st.if_stack) = 0 THEN RErr("IndexError", st)
        ELSE Cont([st EXCEPT !.if_stack =
                        Append(ButLast(st.if_stack), ~Last(st.if_stack))])
    ELSE IF directive = "#define" THEN
        IF Len(line) = 1 THEN
            Cont([st EXCEPT !.macros = Put(@, text, Macro(text, None, <<>>))])
        ELSE IF Len(line) = 0 THEN RErr("IndexError", st)
        ELSE
            LET name == line[1]
                isFunc == line[2] = "(" /\ IndexOf(ButLast(line), ")") # 0
                i == IndexOf(line, ")")
                dtext == IF isFunc
                         THEN Join(SubSeq(line, 1, i)) \o " := "
                              \o Join(SubSeq(line, i + 1, Len(line)))
                         ELSE line[1] \o " := " \o Join(Tail(line))
                macro == IF isFunc
                         THEN Macro(name, Some(SliceArgs(line, i)),
                                    SubSeq(tokens, i + 1, Len(tokens)))
                         ELSE Macro(name, Some(<<>>), Tail(tokens))
                st2 == [st EXCEPT !.macros = Put(@, name, macro)]
            IN IF Visible(st2) THEN RTok(Tok("DEFINE", pos, dtext), st2)
               ELSE Cont(st2)
    ELSE IF directive = "#include" THEN
        IF Visible(st) THEN RTok(Tok("INCLUDE", pos, text), st)
        ELSE Cont(st)
    ELSE Cont(st)

RECURSIVE Tokenizer_next(_, _)
RECURSIVE read_arg_loop(_, _, _, _, _)
RECURSIVE read_formals(_, _, _, _, _)
RECURSIVE read_var_args(_, _, _, _)
RECURSIVE Macro_apply(_, _, _)

\* Level counting the parentheses only, not the brackets
Level_parens_only(token, level) ==
    IF KindOf(token) = "LEFT_PAR" THEN level + 1
    ELSE IF KindOf(token) = "RIGHT_PAR" THEN level - 1
    ELSE level

Level(token, level) ==
    IF KindOf(token) \in {"LEFT_PAR", "LEFT_BRACKET"} THEN level + 1
    ELSE IF KindOf(token) \in {"RIGHT_PAR", "RIGHT_BRACKET"} THEN level - 1
    ELSE level

\* Macro.apply.read_arg, lines 173-180, from the first token on
read_arg_loop(src, st, token, level, result) ==
    IF level = 0 /\ KindOf(token) \in {"COMMA", "RIGHT_PAR"}
    THEN [kind |-> "ok", result |-> result, tok |-> token, exc |-> "", st |-> st]
    ELSE LET After(n) ==
                IF n.kind # "tok"
                THEN [kind |-> n.kind, result |-> <<>>, tok |-> <<>>,
                      exc |-> n.exc, st |-> n.st]
                ELSE read_arg_loop(src, n.st, n.tok, Level(token, level),
                                   Append(result, token))
         IN After(Tokenizer_next(src, st))

\* Macro.apply.read_arg, lines 169-180
read_arg(src, st) ==
    LET After(n) ==
            IF n.kind # "tok"
            THEN [kind |-> n.kind, result |-> <<>>, tok |-> <<>>,
                  exc |-> n.exc, st |-> n.st]
            ELSE read_arg_loop(src, n.st, n.tok, 0, <<>>)
    IN After(Tokenizer_next(src, st))

\* Macro.apply, lines 188-190: the loop over the formals
read_formals(src, st, formals, nxt, args) ==
    IF formals = <<>>
    THEN [kind |-> "ok", args |-> args, nxt |-> nxt, exc |-> "", st |-> st]
    ELSE IF nxt # "COMMA"
    THEN [kind |-> "err", args |-> args, nxt |-> nxt,
          exc |-> "AssertionError", st |-> st]
    ELSE LET After(r) ==
                IF r.kind # "ok"
                THEN [kind |-> r.kind, args |-> args, nxt |-> nxt,
                      exc |-> r.exc, st |-> r.st]
                ELSE read_formals(src, r.st, Tail(formals), KindOf(r.tok),
                                  Put(args, Head(formals), r.result))
         IN After(read_arg(src, st))

\* Macro.apply, lines 192-199: the loop that collects the variadic part
read_var_args(src, st, level, var_args) ==
    IF level < 0
    THEN [kind |-> "ok", var_args |-> var_args, exc |-> "", st |-> st]
    ELSE LET After(n) ==
                IF n.kind # "tok"
                THEN [kind |-> n.kind, var_args |-> var_args,
                      exc |-> n.exc, st |-> n.st]
                ELSE read_var_args(src, n.st, Level(n.tok, level),
                                   Append(var_args, n.tok))
         IN After(Tokenizer_next(src, st))

\* Macro.apply, lines 202-210: the body with the formals replaced
RECURSIVE Substitute(_, _, _)
Substitute(body, args, var_args) ==
    IF body = <<>> THEN <<>>
    ELSE LET token == Head(body)
         IN (IF KindOf(token) = "IDENTIFIER" /\ TextOf(token) \in DOMAIN args
             THEN args[TextOf(token)]
             ELSE IF KindOf(token) = "VARARGS" THEN var_args
             ELSE <<token>>)
            \o Substitute(Tail(body), args, var_args)

\* Macro.apply
Macro_apply(src, m, st) ==
    LET Fail(k, e, s) == [kind |-> k, result |-> <<>>, exc |-> e, st |-> s]
        Done(args, var_args, s) ==
            [kind |-> "ok", result |-> Substitute(m.body, args, var_args),
             exc |-> "", st |-> s]
    IN
    IF IsNone(m.args) THEN Fail("err", "TypeError", st)
    ELSE IF Len(TheValue(m.args)) > 0 THEN
        LET AfterVarArgs(f, v) ==
                IF v.kind # "ok" THEN Fail(v.kind, v.exc, v.st)
                ELSE IF KindOf(Last(v.var_args)) # "RIGHT_PAR"
                THEN Fail("err", "AssertionError", v.st)
                ELSE Done(f.args, ButLast(v.var_args), v.st)
            AfterFormals(f) ==
                IF f.kind # "ok" THEN Fail(f.kind, f.exc, f.st)
                ELSE IF m.var_args /\ f.nxt = "COMMA"
                THEN AfterVarArgs(f, read_var_args(src, f.st, 0, <<>>))
                ELSE IF f.nxt # "RIGHT_PAR"
                THEN Fail("err", "AssertionError", f.st)
                ELSE Done(f.args, <<>>, f.st)
            AfterNext(n) ==
                IF n.kind # "tok" THEN Fail(n.kind, n.exc, n.st)
                ELSE IF KindOf(n.tok) # "LEFT_PAR"
                THEN Fail("err", "AssertionError", n.st)
                ELSE AfterFormals(read_formals(src, n.st, TheValue(m.args),
                                               "COMMA", EmptyDict))
        IN AfterNext(Tokenizer_next(src, st))
    ELSE Done(EmptyDict, <<>>, st)

\* Tokenizer.__next__, lines 426-438: the visibility test and the expansion
Emit(src, st, token) ==
    IF Visible(st) THEN
        IF KindOf(token) = "IDENTIFIER" THEN
            IF TextOf(token) \in DOMAIN st.macros THEN
                LET After(a) ==
                        IF a.kind # "ok"
                        THEN [kind |-> a.kind, tok |-> <<>>, exc |-> a.exc,
                              st |-> a.st]
                        ELSE Tokenizer_next(src,
                                [a.st EXCEPT !.cache = a.result \o a.st.cache])
                IN After(Macro_apply(src, st.macros[TextOf(token)], st))
            ELSE IF TextOf(token) \in KEYWORDS
            THEN RTok(Tok("KEYWORD", PosOf(token), TextOf(token)), st)
            ELSE IF TextOf(token) = "NULL"
            THEN RTok(Tok("NULL", PosOf(token), TextOf(token)), st)
            ELSE RTok(token, st)
        ELSE RTok(token, st)
    ELSE Tokenizer_next(src, st)

\* Tokenizer.__next__ returning a cached token as it is, without scanning it
\* for macros again
Tokenizer_next_cached_raw(src, st) ==
    IF Len(st.cache) > 0
    THEN RTok(Head(st.cache), [st EXCEPT !.cache = Tail(@)])
    ELSE IF st.index >= Len(src) THEN RStop(st)
    ELSE LET token == src[st.index + 1]
             st1 == [st EXCEPT !.index = @ + 1]
         IN IF KindOf(token) = "DIRECTIVE"
            THEN LET After(d) == IF d.kind = "cont"
                                 THEN Tokenizer_next(src, d.st)
                                 ELSE d
                 IN After(Directive(src, st1, token))
            ELSE Emit(src, st1, token)

\* Tokenizer.__next__ reading the directives of a visible region only: in
\* a hidden region a directive is discarded like any other token
Tokenizer_next_skip_hidden(src, st) ==
    IF Len(st.cache) > 0
    THEN Emit(src, [st EXCEPT !.cache = Tail(@)], Head(st.cache))
    ELSE IF st.index >= Len(src) THEN RStop(st)
    ELSE LET token == src[st.index + 1]
             st1 == [st EXCEPT !.index = @ + 1]
         IN IF KindOf(token) = "DIRECTIVE" /\ Visible(st)
            THEN LET After(d) == IF d.kind = "cont"
                                 THEN Tokenizer_next(src, d.st)
                                 ELSE d
                 IN After(Directive(src, st1, token))
            ELSE Emit(src, st1, token)

\* Tokenizer.__next__
Tokenizer_next(src, st) ==
    IF Len(st.cache) > 0
    THEN Emit(src, [st EXCEPT !.cache = Tail(@)], Head(st.cache))
    ELSE IF st.index >= Len(src) THEN RStop(st)
    ELSE LET token == src[st.index + 1]
             st1 == [st EXCEPT !.index = @ + 1]
         IN IF KindOf(token) = "DIRECTIVE"
            THEN LET After(d) == IF d.kind = "cont"
                                 THEN Tokenizer_next(src, d.st)
                                 ELSE d
                 IN After(Directive(src, st1, token))
            ELSE Emit(src, st1, token)


\* list(tokenizer): every token up to StopIteration or an exception
RECURSIVE TokenizeFrom(_, _, _)
TokenizeFrom(src, st, acc) ==
    LET After(r) ==
            IF r.kind = "tok" THEN TokenizeFrom(src, r.st, Append(acc, r.tok))
            ELSE [out |-> acc,
                  status |-> IF r.kind = "stop" THEN "done" ELSE r.exc,
                  st |-> r.st]
    IN After(Tokenizer_next(src, st))

\* list(Tokenizer(source, macros))
TokenizeAll(src, ms) == TokenizeFrom(src, TState(0, <<>>, <<>>, ms), <<>>)

\* a token without its position
KindText(t) == <<KindOf(t), TextOf(t)>>
KindTexts(ts) == [k \in 1..Len(ts) |-> KindText(ts[k])]

-----------------------------------------------------------------------------
(* The consumer of a Tokenizer: list(tokenizer), as in Parser.__init__ *)

\* one next(tokenizer) of a loop that takes every exception for the end of
\* the tokens
Next_token_no_abort ==
    /\ status = "running"
    /\ LET Taken(r) ==
               /\ index' = r.st.index
               /\ cache' = r.st.cache
               /\ if_stack' = r.st.if_stack
               /\ macros' = r.st.macros
               /\ out' = IF r.kind = "tok" THEN Append(out, r.tok) ELSE out
               /\ status' = IF r.kind = "tok" THEN "running" ELSE "done"
       IN Taken(Tokenizer_next(source, TState(index, cache, if_stack, macros)))
    /\ UNCHANGED <<source_text, source, ttVars, genVars>>

\* one next(tokenizer) of the loop
Next_token ==
    /\ status = "running"
    /\ LET Taken(r) ==
               /\ index' = r.st.index
               /\ cache' = r.st.cache
               /\ if_stack' = r.st.if_stack
               /\ macros' = r.st.macros
               /\ out' = IF r.kind = "tok" THEN Append(out, r.tok) ELSE out
               /\ status' = IF r.kind = "tok" THEN "running"
                            ELSE IF r.kind = "stop" THEN "done"
                            ELSE r.exc
       IN Taken(Tokenizer_next(source, TState(index, cache, if_stack, macros)))
    /\ UNCHANGED <<source_text, source, ttVars, genVars>>

-----------------------------------------------------------------------------
(* The raw token stream of a source text.  A text is written as the        *)
(* sequence of its lexemes; RawKind gives each the kind that               *)
(* RawTokenizer.read_token gives it.                                       *)

\* TokenType._single_char_symbols
SingleCharSymbols ==
    ("(" :> "LEFT_PAR") @@ (")" :> "RIGHT_PAR") @@
    ("[" :> "LEFT_BRACKET") @@ ("]" :> "RIGHT_BRACKET") @@
    ("{" :> "LEFT_BRACE") @@ ("}" :> "RIGHT_BRACE") @@
    (";" :> "SEMICOLON") @@ ("," :> "COMMA") @@ (":" :> "COLON") @@
    ("." :> "DOT") @@ ("?" :> "QUESTION_MARK") @@ ("=" :> "EQUAL") @@
    ("*" :> "STAR") @@ ("+" :> "PLUS") @@ ("-" :> "MINUS") @@
    ("~" :> "UNARY_OP") @@ ("!" :> "UNARY_OP") @@ ("&" :> "AMPERSAND") @@
    ("/" :> "DIV_OPERATOR") @@ ("%" :> "DIV_OPERATOR") @@
    ("|" :> "OPERATOR") @@ ("^" :> "OPERATOR") @@
    ("<" :> "COMPARE") @@ (">" :> "COMPARE")

DirectiveWords ==
    {"#if", "#ifdef", "#ifndef", "#else", "#endif", "#define", "#include"}
NumberWords == {"0", "1", "2"}

\* RawTokenizer.read_token: the kind of one lexeme
RawKind(text) ==
    IF text = "\n" THEN "NEWLINE"
    ELSE IF text \in DirectiveWords THEN "DIRECTIVE"
    ELSE IF text = "##__VA_ARGS__" THEN "VARARGS"
    ELSE IF text = "..." THEN "ELLIPSIS"
    ELSE IF text \in NumberWords THEN "NUMBER"
    ELSE IF text \in DOMAIN SingleCharSymbols THEN SingleCharSymbols[text]
    ELSE "IDENTIFIER"

\* list(RawTokenizer(source)) for the text made of the lexemes
RawTokens(texts) ==
    [k \in 1..Len(texts) |-> Tok(RawKind(texts[k]), k, texts[k])]

\* all sequences over S of length 0..n
SeqsUpTo(S, n) == UNION {[1..k -> S] : k \in 0..n}

\* Tokenizer.__init__ on a source text, with no macros handed over;
\* the type translator is not in use
TokInit(texts) ==
    /\ type_map = <<>> /\ functions = <<>> /\ unknown_types = {}
    /\ at_type_map = <<>> /\ cache_file = <<>> /\ cache_loaded = "False"
    /\ ret = <<>>
    /\ NoGen
    /\ source_text = <<>>
    /\ source = RawTokens(texts)
    /\ index = 0
    /\ cache = <<>>
    /\ if_stack = <<>>
    /\ macros = EmptyDict
    /\ out = <<>>
    /\ status = "running"

IsPrefix(s, t) == Len(s) <= Len(t) /\ SubSeq(t, 1, Len(s)) = s

\* the directive line that begins at the DIRECTIVE token k:
\* the lexemes after the directive word, up to the newline
LineOf(src, k) == Texts(SubSeq(src, k + 1, LineEnd(src, k) - 1))

\* the token at k belongs to a directive line
InDirectiveLine(src, k) ==
    \E d \in 1..k : /\ KindOf(src[d]) = "DIRECTIVE"
                    /\ k <= LineEnd(src, d)

-----------------------------------------------------------------------------
(* cparser/ast.py: the nodes of the types and of the expressions, each the *)
(* tuple of its class name and its fields.                                  *)

BaseType(name) == <<"BaseType", name>>
ConstType(type) == <<"ConstType", type>>
EnumType(names) == <<"EnumType", names>>
StructType(name, fields) == <<"StructType", name, fields>>
VarDecl(type, names) == <<"VarDecl", type, names>>
FuncType(return_type, params) == <<"FuncType", return_type, params>>
PointerType(base) == <<"PointerType", base>>
AddressOf(value) == <<"AddressOf", value>>
Assignment(target, src) == <<"Assignment", target, src>>
Attribute(value, name) == <<"Attribute", value, name>>
AugAssignment(target, op, src) == <<"AugAssignment", target, op, src>>
BinOp(left, op, right) == <<"BinOp", left, op, right>>
Call(func, args) == <<"Call", func, args>>
Comparison(left, op, right) == <<"Comparison", left, op, right>>
Const(value) == <<"Const", value>>
ConstArray(values) == <<"ConstArray", values>>
Deref(value) == <<"Deref", value>>
IfExpr(test, body, orelse) == <<"IfExpr", test, body, orelse>>
Name(value) == <<"Name", value>>
SizeOf(target) == <<"SizeOf", target>>
Subscript(value, idx) == <<"Subscript", value, idx>>
TypeCast(type, value) == <<"TypeCast", type, value>>
UnaryOp(op, value) == <<"UnaryOp", op, value>>
UnarySuffixOp(op, value) == <<"UnarySuffixOp", op, value>>

-----------------------------------------------------------------------------
(* cparser/parser.py: the parser of expressions.  tokens is Parser.tokens, *)
(* types is Parser.types and i is Parser.index.                            *)

\* Parser.types as Parser.__init__ sets it
ParserTypes ==
    {"char", "double", "float", "int", "long", "short", "unsigned", "void"}

\* the outcome of a parse method: the node returned (ast) and Parser.index
\* after it, or the exception raised (exc)
POk(ast, i) == [exc |-> "", ast |-> ast, i |-> i]
PRaise(e, i) == [exc |-> e, ast |-> <<>>, i |-> i]

\* F of the outcome of a parse method that returned; the exception
\* otherwise.  The outcome r is computed once, as a statement computes it.
PThen(r, F(_)) == CHOOSE y \in {IF x.exc # "" THEN x ELSE F(x) : x \in {r}} : TRUE

\* Parser.peek(k): "None" when there is no such token
peek(tokens, i, k) ==
    IF i + k < Len(tokens) THEN KindOf(tokens[i + k + 1]) ELSE "None"

\* Parser.peek_value(k): the text, None when there is no such token
peek_value(tokens, i, k) ==
    IF i + k < Len(tokens) THEN Some(TextOf(tokens[i + k + 1])) ELSE None

\* Parser.peek_seq(count)
peek_seq(tokens, i, count) ==
    IF i < Len(tokens)
    THEN [k \in 1..(IF i + count <= Len(tokens) THEN count ELSE Len(tokens) - i)
            |-> KindOf(tokens[i + k])]
    ELSE <<>>

\* Parser.match(token_type): its value, and Parser.index after it
match(tokens, i, token_type) ==
    i < Len(tokens) /\ KindOf(tokens[i + 1]) = token_type
skip(tokens, i, token_type) ==
    IF match(tokens, i, token_type) THEN i + 1 ELSE i

\* Parser.match(token_type, value)
match_value(tokens, i, token_type, value) ==
    match(tokens, i, token_type) /\ TextOf(tokens[i + 1]) = value

\* Parser.next_name(): the name as ast
next_name(tokens, i) ==
    IF i >= Len(tokens) THEN PRaise("TypeError", i)     \* unpacking None
    ELSE IF KindOf(tokens[i + 1]) # "IDENTIFIER" THEN PRaise("SyntaxError", i + 1)
    ELSE POk(TextOf(tokens[i + 1]), i + 1)

\* Parser.check_pointer_star(type)
RECURSIVE check_pointer_star(_, _, _)
check_pointer_star(tokens, type, i) ==
    IF match(tokens, i, "STAR")
    THEN check_pointer_star(tokens, PointerType(type), i + 1)
    ELSE POk(type, i)

\* parse_type, lines 220-222: the names of an enum
RECURSIVE parse_enum_names(_, _, _)
parse_enum_names(tokens, names, i) ==
    IF match(tokens, i, "RIGHT_BRACE") THEN POk(EnumType(names), i + 1)
    ELSE LET Rest(n) == parse_enum_names(tokens, Append(names, n.ast),
                                         skip(tokens, n.i, "COMMA"))
         IN PThen(next_name(tokens, i), Rest)

RECURSIVE parse_type(_, _, _)
RECURSIVE parse_func_params(_, _, _, _, _)
RECURSIVE parse_struct_fields(_, _, _, _)
RECURSIVE parse_var_names(_, _, _, _)

\* parse_var_decl, lines 164-170: the names after the first one
parse_var_names(tokens, type, names, i) ==
    IF match(tokens, i, "COMMA")
    THEN LET More(n) ==
                IF match(tokens, n.i, "EQUAL") THEN PRaise("initial value", n.i + 1)
                ELSE parse_var_names(tokens, type, Append(names, <<n.ast, None>>), n.i)
         IN PThen(next_name(tokens, i + 1), More)
    ELSE IF match(tokens, i, "SEMICOLON") THEN POk(VarDecl(type, names), i + 1)
    ELSE PRaise("SyntaxError", i)

\* Parser.parse_var_decl() for the declaration of variables that are
\* neither static nor inline and have no initial value and no dimension
\* (exc "function", "initial value" and "dimension" stand for the
\* branches of the other declarations)
parse_var_decl(tokens, types, i) ==
    LET Typed(t) ==
            LET Named(n) ==
                    IF match(tokens, n.i, "LEFT_PAR") THEN PRaise("function", n.i + 1)
                    ELSE IF match(tokens, n.i, "EQUAL")
                    THEN PRaise("initial value", n.i + 1)
                    ELSE IF match(tokens, n.i, "LEFT_BRACKET")
                    THEN PRaise("dimension", n.i + 1)
                    ELSE parse_var_names(tokens, t.ast, <<<<n.ast, None>>>>, n.i)
            IN PThen(next_name(tokens, t.i), Named)
    IN PThen(parse_type(tokens, types, i), Typed)

\* parse_type, lines 210-213: the fields of a struct without a name
parse_struct_fields(tokens, types, fields, i) ==
    IF match(tokens, i, "RIGHT_BRACE")
    THEN check_pointer_star(tokens, StructType(None, fields), i + 1)
    ELSE LET Rest(f) == parse_struct_fields(tokens, types, Append(fields, f.ast), f.i)
         IN PThen(parse_var_decl(tokens, types, i), Rest)

\* parse_type, lines 242-245: the parameter types of a function type
parse_func_params(tokens, types, result, params, i) ==
    IF match(tokens, i, "RIGHT_PAR") THEN POk(FuncType(result, params), i + 1)
    ELSE LET Rest(p) == parse_func_params(tokens, types, result,
                                          Append(params, p.ast),
                                          skip(tokens, p.i, "COMMA"))
         IN PThen(parse_type(tokens, types, i), Rest)

\* Parser.parse_type(), for every type but a struct with a name and a
\* body, which Parser.structs records (exc "struct body" stands for that
\* branch)
parse_type(tokens, types, i) ==
    IF match_value(tokens, i, "KEYWORD", "struct") THEN
        LET named == peek(tokens, i + 1, 0) = "IDENTIFIER"
            j == IF named THEN i + 2 ELSE i + 1
        IN IF match(tokens, j, "LEFT_BRACE")
           THEN IF named THEN PRaise("struct body", j + 1)
                ELSE parse_struct_fields(tokens, types, <<>>, j + 1)
           ELSE IF named
           THEN check_pointer_star(tokens,
                    BaseType("struct " \o TextOf(tokens[i + 2])), j)
           ELSE PRaise("SyntaxError", j)
    ELSE IF match_value(tokens, i, "KEYWORD", "enum") THEN
        parse_enum_names(tokens, <<>>, skip(tokens, i + 1, "LEFT_BRACE"))
    ELSE IF match_value(tokens, i, "KEYWORD", "const") THEN
        LET Wrap(t) == POk(ConstType(t.ast), t.i)
        IN PThen(parse_type(tokens, types, i + 1), Wrap)
    ELSE IF match(tokens, i, "LEFT_PAR") THEN
        LET Close(t) == POk(t.ast, skip(tokens, t.i, "RIGHT_PAR"))
        IN PThen(parse_type(tokens, types, i + 1), Close)
    ELSE
        LET Base(n) ==
                LET two == /\ n.ast \in {"signed", "unsigned"}
                           /\ peek(tokens, n.i, 0) = "IDENTIFIER"
                           /\ TheValue(peek_value(tokens, n.i, 0)) \in types
                    name == IF two
                            THEN n.ast \o " " \o TextOf(tokens[n.i + 1])
                            ELSE n.ast
                    Func(t) ==
                        IF /\ peek_seq(tokens, t.i, 4) =
                                <<"LEFT_PAR", "IDENTIFIER", "RIGHT_PAR", "LEFT_PAR">>
                           /\ peek_value(tokens, t.i, 1) = Some("func")
                        THEN parse_func_params(tokens, types, t.ast, <<>>, t.i + 4)
                        ELSE t
                IN PThen(check_pointer_star(tokens, BaseType(name),
                                            IF two THEN n.i + 1 ELSE n.i),
                         Func)
        IN PThen(next_name(tokens, i), Base)

\* op[:-1] of the text of an AUGASSIGN token
AugOp ==
    ("+=" :> "+") @@ ("-=" :> "-") @@ ("*=" :> "*") @@ ("/=" :> "/") @@
    ("%=" :> "%") @@ ("&=" :> "&") @@ ("|=" :> "|") @@ ("^=" :> "^") @@
    (">>=" :> ">>") @@ ("<<=" :> "<<")

RECURSIVE parse_expr(_, _, _)
RECURSIVE parse_ternary(_, _, _)
RECURSIVE parse_bitwise_loop(_, _, _, _)
RECURSIVE parse_sum_loop(_, _, _, _)
RECURSIVE parse_product_loop(_, _, _, _)
RECURSIVE parse_shift_operand(_, _, _, _)
RECURSIVE parse_compare_operand(_, _, _, _)
RECURSIVE parse_deref(_, _, _)
RECURSIVE parse_trailer(_, _, _, _)
RECURSIVE parse_call_args(_, _, _, _)
RECURSIVE parse_atom(_, _, _)
RECURSIVE parse_array_values(_, _, _, _)

\* Parser.parse_atom(), lines 530-532: the values of a constant array
parse_array_values(tokens, types, values, i) ==
    IF match(tokens, i, "RIGHT_BRACE") THEN POk(ConstArray(values), i + 1)
    ELSE LET Rest(v) == parse_array_values(tokens, types, Append(values, v.ast),
                                           skip(tokens, v.i, "COMMA"))
         IN PThen(parse_atom(tokens, types, i), Rest)

\* Parser.parse_atom()
parse_atom(tokens, types, i) ==
    IF i >= Len(tokens) THEN PRaise("SyntaxError", i)
    ELSE
    LET token_type == KindOf(tokens[i + 1])
        value == TextOf(tokens[i + 1])
        j == i + 1
        Cast(tp) ==
            LET Casted(v) == POk(TypeCast(tp.ast, v.ast), v.i)
            IN PThen(parse_deref(tokens, types, skip(tokens, tp.i, "RIGHT_PAR")),
                     Casted)
        Close(e) == POk(e.ast, skip(tokens, e.i, "RIGHT_PAR"))
        Unary(v) == IF v.ast[1] = "Const"
                    THEN POk(Const(value \o v.ast[2]), v.i)
                    ELSE POk(UnaryOp(value, v.ast), v.i)
        Prefix(v) == POk(UnaryOp(value, v.ast), v.i)
        Size(v) == POk(SizeOf(v.ast), v.i)
    IN
    IF token_type = "LEFT_PAR" THEN
        IF \/ /\ peek(tokens, j, 0) = "IDENTIFIER"
              /\ TheValue(peek_value(tokens, j, 0)) \in types
           \/ peek_seq(tokens, j, 3) = <<"IDENTIFIER", "STAR", "RIGHT_PAR">>
        THEN PThen(parse_type(tokens, types, j), Cast)
        ELSE PThen(parse_expr(tokens, types, j), Close)
    ELSE IF token_type = "IDENTIFIER" THEN POk(Name(value), j)
    ELSE IF token_type \in {"NULL", "NUMBER", "STRING"} THEN POk(Const(value), j)
    ELSE IF token_type \in {"PLUS", "MINUS", "UNARY_OP"}
    THEN PThen(parse_atom(tokens, types, j), Unary)
    ELSE IF token_type = "LEFT_BRACE"
    THEN parse_array_values(tokens, types, <<>>, j)
    ELSE IF token_type = "KEYWORD" /\ value = "sizeof" THEN
        IF /\ peek_seq(tokens, j, 2) = <<"LEFT_PAR", "IDENTIFIER">>
           /\ TheValue(peek_value(tokens, j, 1)) \in types
        THEN PThen(parse_type(tokens, types, j), Size)
        ELSE PThen(parse_atom(tokens, types, j), Size)
    ELSE IF token_type \in {"DECREMENT", "INCREMENT"}
    THEN PThen(parse_atom(tokens, types, j), Prefix)
    ELSE PRaise("SyntaxError", j)

\* Parser.parse_trailer(), lines 471-473: the arguments of a call
parse_call_args(tokens, types, args, i) ==
    IF peek(tokens, i, 0) # "RIGHT_PAR"
    THEN LET Rest(a) == parse_call_args(tokens, types, Append(args, a.ast),
                                        skip(tokens, a.i, "COMMA"))
         IN PThen(parse_expr(tokens, types, i), Rest)
    ELSE POk(args, i)

\* Parser.parse_trailer(expr)
parse_trailer(tokens, types, expr, i) ==
    IF match(tokens, i, "LEFT_PAR") THEN
        LET Called(a) == parse_trailer(tokens, types, Call(expr, a.ast),
                                       skip(tokens, a.i, "RIGHT_PAR"))
        IN PThen(parse_call_args(tokens, types, <<>>, i + 1), Called)
    ELSE IF match(tokens, i, "LEFT_BRACKET") THEN
        LET Indexed(x) == parse_trailer(tokens, types, Subscript(expr, x.ast),
                                        skip(tokens, x.i, "RIGHT_BRACKET"))
        IN PThen(parse_expr(tokens, types, i + 1), Indexed)
    ELSE IF match(tokens, i, "ARROW") \/ match(tokens, i, "DOT") THEN
        LET Attr(n) == parse_trailer(tokens, types, Attribute(expr, n.ast), n.i)
        IN PThen(next_name(tokens, i + 1), Attr)
    ELSE IF peek(tokens, i, 0) \in {"DECREMENT", "INCREMENT"}
    THEN POk(UnarySuffixOp(TextOf(tokens[i + 1]), expr), i + 1)
    ELSE POk(expr, i)

\* Parser.parse_deref()
parse_deref(tokens, types, i) ==
    LET deref == match(tokens, i, "STAR")
        i1 == skip(tokens, i, "STAR")
        addr == match(tokens, i1, "AMPERSAND")
        i2 == skip(tokens, i1, "AMPERSAND")
        Wrapped(v) ==
            LET a == IF addr THEN AddressOf(v.ast) ELSE v.ast
                d == IF deref THEN Deref(a) ELSE a
            IN parse_trailer(tokens, types, d, v.i)
    IN PThen(parse_atom(tokens, types, i2), Wrapped)

\* Parser.parse_product(), from the operand at i on: left is None at the
\* first operand, and after it the value so far with the operator read
\* (the loop of lines 451-454)
parse_product_loop(tokens, types, left, i) ==
    LET Operand(r) ==
            LET value == IF IsNone(left) THEN r.ast
                         ELSE BinOp(left[1][1], left[1][2], r.ast)
            IN IF peek(tokens, r.i, 0) \in {"DIV_OPERATOR", "STAR"}
               THEN parse_product_loop(tokens, types,
                        Some(<<value, TextOf(tokens[r.i + 1])>>), r.i + 1)
               ELSE POk(value, r.i)
    IN PThen(parse_deref(tokens, types, i), Operand)

\* Parser.parse_product()
parse_product(tokens, types, i) == parse_product_loop(tokens, types, None, i)

\* Parser.parse_sum(), from the operand at i on: left is None at the
\* first operand, and after it the value so far with the operator read
\* (the loop of lines 443-446)
parse_sum_loop(tokens, types, left, i) ==
    LET Operand(r) ==
            LET value == IF IsNone(left) THEN r.ast
                         ELSE BinOp(left[1][1], left[1][2], r.ast)
            IN IF peek(tokens, r.i, 0) \in {"PLUS", "MINUS"}
               THEN parse_sum_loop(tokens, types,
                        Some(<<value, TextOf(tokens[r.i + 1])>>), r.i + 1)
               ELSE POk(value, r.i)
    IN PThen(parse_product(tokens, types, i), Operand)

\* Parser.parse_sum()
parse_sum(tokens, types, i) == parse_sum_loop(tokens, types, None, i)

\* Parser.parse_shift(), from the operand at i on: left is None at the
\* first operand, and at the second the first with the operator read
parse_shift_operand(tokens, types, left, i) ==
    LET Operand(r) ==
            IF ~IsNone(left)
            THEN POk(BinOp(left[1][1], left[1][2], r.ast), r.i)
            ELSE IF peek(tokens, r.i, 0) = "SHIFT_OPERATOR"
            THEN parse_shift_operand(tokens, types,
                     Some(<<r.ast, TextOf(tokens[r.i + 1])>>), r.i + 1)
            ELSE r
    IN PThen(parse_sum(tokens, types, i), Operand)

\* Parser.parse_shift()
parse_shift(tokens, types, i) == parse_shift_operand(tokens, types, None, i)

\* Parser.parse_compare(), from the operand at i on: left is None at the
\* first operand, and at the second the first with the operator read
parse_compare_operand(tokens, types, left, i) ==
    LET Operand(r) ==
            IF ~IsNone(left)
            THEN POk(Comparison(left[1][1], left[1][2], r.ast), r.i)
            ELSE IF peek(tokens, r.i, 0) = "COMPARE"
            THEN parse_compare_operand(tokens, types,
                     Some(<<r.ast, TextOf(tokens[r.i + 1])>>), r.i + 1)
            ELSE r
    IN PThen(parse_shift(tokens, types, i), Operand)

\* Parser.parse_compare()
parse_compare(tokens, types, i) == parse_compare_operand(tokens, types, None, i)

\* Parser.parse_bitwise(), from the operand at i on: left is None at the
\* first operand, and after it the value so far with the operator read
\* (the loop of lines 419-422)
parse_bitwise_loop(tokens, types, left, i) ==
    LET Operand(r) ==
            LET value == IF IsNone(left) THEN r.ast
                         ELSE BinOp(left[1][1], left[1][2], r.ast)
            IN IF peek(tokens, r.i, 0) \in {"OPERATOR", "AMPERSAND"}
               THEN parse_bitwise_loop(tokens, types,
                        Some(<<value, TextOf(tokens[r.i + 1])>>), r.i + 1)
               ELSE POk(value, r.i)
    IN PThen(parse_compare(tokens, types, i), Operand)

\* Parser.parse_bitwise()
parse_bitwise(tokens, types, i) == parse_bitwise_loop(tokens, types, None, i)

\* Parser.parse_ternary()
parse_ternary(tokens, types, i) ==
    LET Test(v) ==
            IF match(tokens, v.i, "QUESTION_MARK")
            THEN LET Body(b) ==
                        LET Else(o) == POk(IfExpr(v.ast, b.ast, o.ast), o.i)
                        IN PThen(parse_ternary(tokens, types,
                                               skip(tokens, b.i, "COLON")),
                                 Else)
                 IN PThen(parse_ternary(tokens, types, v.i + 1), Body)
            ELSE v
    IN PThen(parse_bitwise(tokens, types, i), Test)

\* Parser.parse_expr()
parse_expr(tokens, types, i) ==
    LET Assign(v) ==
            IF match(tokens, v.i, "EQUAL")
            THEN LET Src(s) == POk(Assignment(v.ast, s.ast), s.i)
                 IN PThen(parse_expr(tokens, types, v.i + 1), Src)
            ELSE IF peek(tokens, v.i, 0) = "AUGASSIGN"
            THEN LET Src(s) ==
                        POk(AugAssignment(v.ast, AugOp[TextOf(tokens[v.i + 1])],
                                          s.ast), s.i)
                 IN PThen(parse_expr(tokens, types, v.i + 1), Src)
            ELSE v
    IN PThen(parse_ternary(tokens, types, i), Assign)

\* ParserContext.parse_expr(text) with self.macros = ms and self.types =
\* types: the node returned, or the exception of the tokenizer or the parser
ParserContext_parse_expr(ms, types, texts) ==
    LET Parsed(r) == [exc |-> r.exc, ast |-> r.ast]
        Tokens(t) ==
            IF t.status # "done" THEN [exc |-> t.status, ast |-> <<>>]
            ELSE Parsed(parse_expr(t.out, ParserTypes \cup types, 0))
    IN Tokens(TokenizeAll(RawTokens(texts), ms))

-----------------------------------------------------------------------------
(* Conditional compilation: texts made of conditional directives and plain *)
(* tokens, one per line.                                                   *)

MaxCondLines == 5

CondLines ==
    { <<"#if", "0", "\n">>, <<"#if", "1", "\n">>, <<"#ifdef", "M", "\n">>,
      <<"#ifndef", "M", "\n">>, <<"#else", "\n">>, <<"#endif", "\n">>,
      <<"x">> }

InitCond ==
    \E lines \in SeqsUpTo(CondLines, MaxCondLines) : TokInit(Flatten(lines))

SpecCond == InitCond /\ [][Next_token]_vars

\* The frames of the conditionals open before token k, innermost last:
\* "if0" for an `#if 0` whose `#else` has not been read, "if0else" for one
\* whose `#else` has been read, "other" for any other conditional.
RECURSIVE FramesBefore(_, _)
FramesBefore(src, k) ==
    IF k <= 1 THEN <<>>
    ELSE LET f == FramesBefore(src, k - 1)
             t == src[k - 1]
             d == TextOf(t)
         IN IF KindOf(t) # "DIRECTIVE" \/ LineEnd(src, k - 1) = 0 THEN f
            ELSE IF d = "#if" /\ LineOf(src, k - 1) = <<"0">>
                 THEN Append(f, "if0")
            ELSE IF d \in {"#if", "#ifdef", "#ifndef"} THEN Append(f, "other")
            ELSE IF d = "#endif" /\ f # <<>> THEN ButLast(f)
            ELSE IF d = "#else" /\ f # <<>> /\ Last(f) = "if0"
                 THEN Append(ButLast(f), "if0else")
            ELSE f

\* the plain tokens that lie between an `#if 0` and its `#endif`, before an
\* `#else` of that `#if 0`
HiddenByIf0(src) ==
    { k \in 1..Len(src) :
        /\ ~InDirectiveLine(src, k)
        /\ \E j \in 1..Len(FramesBefore(src, k)) :
                FramesBefore(src, k)[j] = "if0" }

\* C1: no plain token that lies strictly between an `#if 0` and its
\* matching `#endif` (and before an `#else` of that `#if 0`) is emitted,
\* also when it sits inside a further conditional nested in that region.
C1_HiddenNeverEmitted ==
    \A k \in 1..Len(out) : PosOf(out[k]) \notin HiddenByIf0(source)

-----------------------------------------------------------------------------
(* Object-like macros: texts made of `#define` lines and plain names, one  *)
(* per line.  No macro of these texts refers to itself.                    *)

MaxMacroLines == 4

MacroLines ==
    { <<"#define", "A", "B", "w", "\n">>, <<"#define", "C", "A", "\n">>,
      <<"#define", "B", "x", "\n">>, <<"#define", "B", "y", "\n">>,
      <<"#define", "B", "\n">>,
      <<"A">>, <<"B">>, <<"C">>, <<"z">> }

InitMacro ==
    \E lines \in SeqsUpTo(MacroLines, MaxMacroLines) : TokInit(Flatten(lines))

SpecMacro == InitMacro /\ [][Next_token]_vars

\* token d begins a `#define` line for the macro called name
IsDefineOf(src, d, name) ==
    /\ KindOf(src[d]) = "DIRECTIVE"
    /\ TextOf(src[d]) = "#define"
    /\ LineEnd(src, d) # 0
    /\ LineOf(src, d) # <<>>
    /\ LineOf(src, d)[1] = name

\* token p is a plain name whose latest `#define` before p has no body
IsBodylessUse(src, p) ==
    /\ KindOf(src[p]) = "IDENTIFIER"
    /\ ~InDirectiveLine(src, p)
    /\ \E d \in 1..p :
        /\ IsDefineOf(src, d, TextOf(src[p]))
        /\ Len(LineOf(src, d)) = 1
        /\ \A e \in (d+1)..p : ~IsDefineOf(src, e, TextOf(src[p]))

\* C3: after a body-less `#define NAME`, an occurrence of NAME in visible
\* text expands to nothing: once it has been read the tokenizer is still
\* running (or has finished), and NAME itself is not in the output.
C3_BodylessExpandsToNothing ==
    \A p \in 1..Len(source) :
        (index >= p /\ IsBodylessUse(source, p)) =>
            /\ status \in {"running", "done"}
            /\ \A k \in 1..Len(out) : PosOf(out[k]) # p

\* The expansion of a text under use-time resolution: env maps each macro
\* to the lexemes of its latest `#define`; a name is replaced by the
\* expansion, under the env of the place of use, of its body.
RECURSIVE ExpandRef(_, _)
ExpandRef(env, texts) ==
    IF texts = <<>> THEN <<>>
    ELSE (IF Head(texts) \in DOMAIN env
          THEN ExpandRef(env, env[Head(texts)])
          ELSE <<Head(texts)>>) \o ExpandRef(env, Tail(texts))

RECURSIVE RefOutputFrom(_, _, _)
RefOutputFrom(src, k, env) ==
    IF k > Len(src) THEN <<>>
    ELSE IF KindOf(src[k]) = "DIRECTIVE"
    THEN RefOutputFrom(src, LineEnd(src, k) + 1,
            IF TextOf(src[k]) = "#define"
            THEN Put(env, LineOf(src, k)[1], Tail(LineOf(src, k)))
            ELSE env)
    ELSE ExpandRef(env, <<TextOf(src[k])>>) \o RefOutputFrom(src, k + 1, env)

RefOutput(src) ==
    LET texts == RefOutputFrom(src, 1, EmptyDict)
    IN [k \in 1..Len(texts) |-> <<RawKind(texts[k]), texts[k]>>]

NonDefine(ts) == SelectSeq(ts, LAMBDA t : KindOf(t) # "DEFINE")

\* C4: a macro named in the body of another macro is resolved when the
\* outer macro is used: the output is the text expanded with, for every
\* name, the `#define` in effect where the name is used, and expanded again
\* until no macro name remains.  (A use that raises ends the output early.)
C4_ResolvedAtUse ==
    LET exp == RefOutput(source)
        act == KindTexts(NonDefine(out))
    IN /\ IsPrefix(act, exp)
       /\ status = "done" => act = exp

\* A is defined, B is defined and later redefined, then A is used, and the
\* output holds a token of the body of the redefinition
C4_Witness ==
    /\ status = "done"
    /\ \E a, b, c, u \in 1..Len(source) :
        /\ a < b /\ b < c /\ c < u
        /\ IsDefineOf(source, a, "A")
        /\ IsDefineOf(source, b, "B")
        /\ IsDefineOf(source, c, "B")
        /\ LineOf(source, b) # LineOf(source, c)
        /\ ~InDirectiveLine(source, u) /\ TextOf(source[u]) = "A"
        /\ \E k \in 1..Len(out) :
            PosOf(out[k]) > c /\ PosOf(out[k]) < LineEnd(source, c)

-----------------------------------------------------------------------------
(* Function-like macros: texts that define ADD and/or CHECK and then       *)
(* invoke one of them on a list of actual arguments.                       *)

MaxActuals == 3

DefineADD == <<"#define", "ADD", "(", "a", ",", "b", ")", "a", "+", "b", "\n">>
DefineCHECK ==
    <<"#define", "CHECK", "(", "p", ",", "r", ")",
      "(", "(", "r", ")", "?", "(", "r", ")", ":", "NULL", ")", "\n">>

CallDefines ==
    { <<DefineADD>>, <<DefineCHECK>>, <<DefineADD, DefineCHECK>> }

ActualSpans ==
    { <<"x">>, <<"b">>, <<>>,
      <<"make", "(", "1", ",", "2", ")">>,
      <<"v", "[", "1", ",", "2", "]">>,
      <<"ADD", "(", "x", ",", "y", ")">> }

RECURSIVE CommaJoin(_)
CommaJoin(spans) ==
    IF spans = <<>> THEN <<>>
    ELSE IF Len(spans) = 1 THEN spans[1]
    ELSE spans[1] \o <<",">> \o CommaJoin(Tail(spans))

InitCall ==
    \E defs \in CallDefines :
    \E d \in 1..Len(defs) :
    \E actuals \in SeqsUpTo(ActualSpans, MaxActuals) :
    \E rest \in {<<>>, <<"z">>} :
        TokInit(Flatten(defs) \o <<defs[d][2], "(">> \o CommaJoin(actuals)
                \o <<")">> \o rest)

SpecCall == InitCall /\ [][Next_token]_vars

\* the invocation: the first token after the `#define` lines
CallAt(src) ==
    CHOOSE u \in 2..Len(src) :
        /\ KindOf(src[u - 1]) = "NEWLINE"
        /\ \A j \in u..Len(src) : KindOf(src[j]) # "NEWLINE"

\* the `#define` line of the macro invoked at u, as lexemes
DefLineOf(src, u) ==
    LineOf(src, CHOOSE d \in 1..u : IsDefineOf(src, d, TextOf(src[u])))

\* its formals and its body
FormalsOf(line) ==
    SelectSeq(SubSeq(line, 3, IndexOf(line, ")") - 1), LAMBDA t : t # ",")
BodyOf(line) == SubSeq(line, IndexOf(line, ")") + 1, Len(line))

\* the parenthesis/bracket depth in front of token k, counted from the
\* token after the opening parenthesis of the invocation at u
DepthAt(src, u, k) ==
    Cardinality({j \in (u + 2)..(k - 1) :
                    KindOf(src[j]) \in {"LEFT_PAR", "LEFT_BRACKET"}})
    - Cardinality({j \in (u + 2)..(k - 1) :
                    KindOf(src[j]) \in {"RIGHT_PAR", "RIGHT_BRACKET"}})

\* the closing parenthesis of the invocation (0 when there is none)
CloseOf(src, u) ==
    LET C == {k \in (u + 2)..Len(src) :
                KindOf(src[k]) = "RIGHT_PAR" /\ DepthAt(src, u, k) = 0}
    IN IF C = {} THEN 0 ELSE CHOOSE k \in C : \A j \in C : k <= j

\* the commas at depth zero of the invocation that is closed at c
TopCommas(src, u, c) ==
    {k \in (u + 2)..(c - 1) :
        KindOf(src[k]) = "COMMA" /\ DepthAt(src, u, k) = 0}

\* the j-th delimiter of the actuals: the opening parenthesis (j = 0), the
\* j-th of the commas, or the closing parenthesis
Delimiter(u, c, commas, j) ==
    IF j = 0 THEN u + 1
    ELSE IF j > Cardinality(commas) THEN c
    ELSE CHOOSE k \in commas : Cardinality({x \in commas : x < k}) = j - 1

\* the j-th actual: the lexemes between two delimiters
Actual(src, u, c, commas, j) ==
    Texts(SubSeq(src, Delimiter(u, c, commas, j - 1) + 1,
                 Delimiter(u, c, commas, j) - 1))

\* the invocation has a closing parenthesis and as many actuals as formals
WellFormedCall(src) ==
    LET u == CallAt(src)
        c == CloseOf(src, u)
    IN /\ c # 0
       /\ Cardinality(TopCommas(src, u, c)) + 1
            = Len(FormalsOf(DefLineOf(src, u)))

\* the invocation with what follows it, as ParserContext.parse_expr is given
\* it once the `#define` lines have been read
InvocationText(src) == Texts(SubSeq(src, CallAt(src), Len(src)))

\* the body of the macro invoked, each formal replaced by its actual, with
\* what follows the invocation
SubstitutedCall(src) ==
    LET u == CallAt(src)
        c == CloseOf(src, u)
        commas == TopCommas(src, u, c)
        line == DefLineOf(src, u)
        formals == FormalsOf(line)
        body == BodyOf(line)
        Repl(t) == IF IndexOf(formals, t) # 0
                   THEN Actual(src, u, c, commas, IndexOf(formals, t))
                   ELSE <<t>>
    IN Flatten([k \in 1..Len(body) |-> Repl(body[k])])
       \o Texts(SubSeq(src, c + 1, Len(src)))

\* the text with the invocation replaced by the body written out
SubstitutedText(src) ==
    Texts(SubSeq(src, 1, CallAt(src) - 1)) \o SubstitutedCall(src)

\* `(r) ? (r) : NULL` with the second actual of the invocation for r, and
\* what follows the invocation
TernaryOfActual(src) ==
    LET u == CallAt(src)
        c == CloseOf(src, u)
        r == Actual(src, u, c, TopCommas(src, u, c), 2)
    IN <<"(">> \o r \o <<")", "?", "(">> \o r \o <<")", ":", "NULL">>
       \o Texts(SubSeq(src, c + 1, Len(src)))

\* C2: an invocation of a function-like macro, with the actuals separated
\* by the commas at parenthesis/bracket depth zero, tokenizes without an
\* error to the kinds and texts that the text with the body written out
\* (each formal replaced by its actual) tokenizes to, and parses as that
\* text does; an invocation CHECK(p, r) of `#define CHECK(p,r) ((r)?(r):NULL)`
\* parses to the AST of `(r) ? (r) : NULL`.
C2_CallIsSubstitution ==
    (status # "running" /\ WellFormedCall(source)) =>
        /\ status = "done"
        /\ KindTexts(out) =
                KindTexts(TokenizeAll(RawTokens(SubstitutedText(source)),
                                      EmptyDict).out)
        /\ ParserContext_parse_expr(macros, {}, InvocationText(source)) =
                ParserContext_parse_expr(macros, {}, SubstitutedCall(source))
        /\ TextOf(source[CallAt(source)]) = "CHECK" =>
                ParserContext_parse_expr(macros, {}, InvocationText(source)) =
                    ParserContext_parse_expr(macros, {}, TernaryOfActual(source))

\* a finished invocation CHECK(x, make(1,2)), whose second actual holds a
\* comma inside parentheses, that parses to the ternary of the two calls
C2_Witness ==
    /\ status = "done"
    /\ WellFormedCall(source)
    /\ \E k \in (CallAt(source) + 2)..(CloseOf(source, CallAt(source)) - 1) :
            KindOf(source[k]) = "COMMA" /\ DepthAt(source, CallAt(source), k) > 0
    /\ Len(out) > 3
    /\ TextOf(source[CallAt(source)]) = "CHECK"
    /\ ParserContext_parse_expr(macros, {}, InvocationText(source)) =
            [exc |-> "",
             ast |-> IfExpr(Call(Name("make"), <<Const("1"), Const("2")>>),
                            Call(Name("make"), <<Const("1"), Const("2")>>),
                            Const("NULL"))]

-----------------------------------------------------------------------------
(* Python strings.  A str is the sequence of its characters; the methods   *)
(* of str the type translator uses are computed as Python computes them.   *)

LowerLetters == <<"a", "b", "c", "d", "e", "f", "g", "h", "i", "j", "k", "l", "m", "n", "o", "p", "q", "r", "s", "t", "u", "v", "w", "x", "y", "z">>
UpperLetters == <<"A", "B", "C", "D", "E", "F", "G", "H", "I", "J", "K", "L", "M", "N", "O", "P", "Q", "R", "S", "T", "U", "V", "W", "X", "Y", "Z">>
Whitespace == {" ", "\t", "\n", "\r"}

UpperSet == {UpperLetters[k] : k \in 1..Len(UpperLetters)}
LowerSet == {LowerLetters[k] : k \in 1..Len(LowerLetters)}
LowerOf == [c \in UpperSet |-> LowerLetters[IndexOf(UpperLetters, c)]]
UpperOf == [c \in LowerSet |-> UpperLetters[IndexOf(LowerLetters, c)]]

\* str.isupper() / str.islower() / str.lower() / str.upper() of one character
IsUpper(c) == c \in UpperSet
IsLower(c) == c \in LowerSet
IsCased(c) == IsUpper(c) \/ IsLower(c)
LowerChar(c) == IF IsUpper(c) THEN LowerOf[c] ELSE c
UpperChar(c) == IF IsLower(c) THEN UpperOf[c] ELSE c

\* s.lower()
Lower(s) == [k \in 1..Len(s) |-> LowerChar(s[k])]

\* s.upper() where s.title() is meant
Title_upper(s) == [k \in 1..Len(s) |-> UpperChar(s[k])]

\* s.title(): a cased character is upper-cased after an uncased one (or at
\* the start) and lower-cased after a cased one
Title(s) ==
    [k \in 1..Len(s) |->
        IF k > 1 /\ IsCased(s[k - 1]) THEN LowerChar(s[k]) ELSE UpperChar(s[k])]

\* s.replace(c, '') for one character c
RECURSIVE Remove(_, _)
Remove(s, c) ==
    IF s = <<>> THEN <<>>
    ELSE IF Head(s) = c THEN Remove(Tail(s), c)
    ELSE <<Head(s)>> \o Remove(Tail(s), c)

\* s.startswith(p), s.endswith(p)
StartsWith(s, p) == Len(p) <= Len(s) /\ SubSeq(s, 1, Len(p)) = p
EndsWith(s, p) ==
    Len(p) <= Len(s) /\ SubSeq(s, Len(s) - Len(p) + 1, Len(s)) = p

\* p in s
Contains(s, p) ==
    \E k \in 0..(Len(s) - Len(p)) : SubSeq(s, k + 1, k + Len(p)) = p

\* s.find(p, start): 0-based, -1 when p does not occur from start on
Find(s, p, start) ==
    LET hits == {k \in start..(Len(s) - Len(p)) :
                    SubSeq(s, k + 1, k + Len(p)) = p}
    IN IF hits = {} THEN -1
       ELSE CHOOSE k \in hits : \A h \in hits : k <= h

\* s.rfind(c) for one character c: 0-based, -1 when absent
RFind(s, c) ==
    LET hits == {k \in 0..(Len(s) - 1) : s[k + 1] = c}
    IN IF hits = {} THEN -1
       ELSE CHOOSE k \in hits : \A h \in hits : k >= h

\* s[i:j] for 0 <= i, and j counted from the end when negative
Slice(s, i, j) ==
    LET hi == IF j < 0 THEN Len(s) + j ELSE IF j > Len(s) THEN Len(s) ELSE j
    IN SubSeq(s, i + 1, hi)

\* s.strip()
RECURSIVE LStrip(_)
LStrip(s) ==
    IF s # <<>> /\ Head(s) \in Whitespace THEN LStrip(Tail(s)) ELSE s
RECURSIVE RStrip(_)
RStrip(s) ==
    IF s # <<>> /\ Last(s) \in Whitespace THEN RStrip(ButLast(s)) ELSE s
Strip(s) == RStrip(LStrip(s))

\* s.split(sep): the pieces between the occurrences of sep, at least one
RECURSIVE Split(_, _)
Split(s, sep) ==
    LET k == Find(s, sep, 0)
    IN IF k < 0 THEN <<s>>
       ELSE <<SubSeq(s, 1, k)>> \o Split(SubSeq(s, k + Len(sep) + 1, Len(s)), sep)

\* sep.join(parts)
RECURSIVE JoinStr(_, _)
JoinStr(sep, parts) ==
    IF parts = <<>> THEN <<>>
    ELSE IF Len(parts) = 1 THEN parts[1]
    ELSE parts[1] \o sep \o JoinStr(sep, Tail(parts))

\* [t.strip() for t in parts]
StripAll(parts) == [k \in 1..Len(parts) |-> Strip(parts[k])]

-----------------------------------------------------------------------------
(* Python dicts whose order matters: the sequence of the <<key, value>>     *)
(* pairs in insertion order.                                               *)

DKeys(d) == [k \in 1..Len(d) |-> d[k][1]]
DHas(d, key) == \E k \in 1..Len(d) : d[k][1] = key
DGet(d, key) == d[CHOOSE k \in 1..Len(d) : d[k][1] = key][2]

\* d[key] = value: a present key keeps its place
DPut(d, key, value) ==
    IF DHas(d, key)
    THEN [k \in 1..Len(d) |-> IF d[k][1] = key THEN <<key, value>> ELSE d[k]]
    ELSE Append(d, <<key, value>>)

-----------------------------------------------------------------------------
(* codegen/java_type_converter.py: the translation of C types to Java types *)

\* type_map as the module initialises it
BuiltinTypeMap ==
    << <<<<"c", "h", "a", "r">>, <<"c", "h", "a", "r">>>>, <<<<"c", "h", "a", "r", "*">>, <<"S", "t", "r", "i", "n", "g">>>>,
       <<<<"c", "o", "n", "s", "t", " ", "c", "h", "a", "r", "*">>, <<"S", "t", "r", "i", "n", "g">>>>, <<<<"d", "o", "u", "b", "l", "e">>, <<"d", "o", "u", "b", "l", "e">>>>,
       <<<<"d", "o", "u", "b", "l", "e", "*">>, <<"D", "o", "u", "b", "l", "e">>>>, <<<<"f", "l", "o", "a", "t">>, <<"f", "l", "o", "a", "t">>>>,
       <<<<"f", "l", "o", "a", "t", "*">>, <<"F", "l", "o", "a", "t">>>>, <<<<"i", "n", "t">>, <<"i", "n", "t">>>>,
       <<<<"i", "n", "t", "*">>, <<"I", "n", "t", "e", "g", "e", "r">>>>, <<<<"l", "o", "n", "g">>, <<"i", "n", "t">>>>,
       <<<<"l", "o", "n", "g", "*">>, <<"I", "n", "t", "e", "g", "e", "r">>>>, <<<<"l", "o", "n", "g", " ", "l", "o", "n", "g">>, <<"l", "o", "n", "g">>>>,
       <<<<"l", "o", "n", "g", " ", "l", "o", "n", "g", "*">>, <<"L", "o", "n", "g">>>>, <<<<"s", "i", "z", "e", "_", "t">>, <<"i", "n", "t">>>>,
       <<<<"v", "o", "i", "d", "*">>, <<"O", "b", "j", "e", "c", "t">>>>, <<<<"P", "y", "_", "s", "s", "i", "z", "e", "_", "t">>, <<"i", "n", "t">>>>,
       <<<<"c", "o", "n", "s", "t", "a", "n", "t">>, <<"O", "b", "j", "e", "c", "t">>>>, <<<<"i", "d", "e", "n", "t", "i", "f", "i", "e", "r">>, <<"S", "t", "r", "i", "n", "g">>>>,
       <<<<"s", "t", "r", "i", "n", "g">>, <<"S", "t", "r", "i", "n", "g">>>> >>

default_Java_object == <<"O", "b", "j", "e", "c", "t">>

\* the outcome of a call: the value returned, or the exception raised (exc),
\* and unknown_types as the call leaves it
TOk(v, u) == [exc |-> "", val |-> v, unknown |-> u]
TRaise(e, u) == [exc |-> e, val |-> <<>>, unknown |-> u]

\* f(r.val) for the value of a call that returned; the exception otherwise
TThen(r, F(_)) == IF r.exc # "" THEN r ELSE F(r)

RECURSIVE translate(_, _, _)
RECURSIVE translate_list(_, _, _)

\* translate(c_type) for a str c_type, with type_map = tm, unknown_types = u
translate(tm, c_type, u) ==
    LET j_type == IF DHas(tm, c_type) THEN DGet(tm, c_type) ELSE <<>>
        len == Len(c_type)
        Array(r) == TOk(r.val \o <<"[", "]">>, r.unknown)
    IN
    IF j_type # <<>> THEN TOk(j_type, u)
    ELSE IF c_type = <<>> THEN TOk(default_Java_object, u)
    ELSE IF EndsWith(c_type, <<"_", "s", "e", "q", "*">>)
    THEN TThen(translate(tm, Slice(c_type, 0, -5), u), Array)
    ELSE IF EndsWith(c_type, <<"[", "]">>)
    THEN TThen(translate(tm, Slice(c_type, 0, -2), u), Array)
    ELSE IF StartsWith(c_type, <<"a", "s", "d", "l", "_">>)
    THEN translate(tm, Slice(c_type, 5, len), u)
    ELSE IF EndsWith(c_type, <<"_", "t", "y">>)
    THEN translate(tm, Slice(c_type, 0, -3), u)
    ELSE IF EndsWith(c_type, <<"*">>)
    THEN translate(tm, Slice(c_type, 0, -1), u)
    ELSE IF StartsWith(c_type, <<"s", "i", "g", "n", "e", "d", " ">>) \/ StartsWith(c_type, <<"u", "n", "s", "i", "g", "n", "e", "d", " ">>)
    THEN LET Signed(r) ==
                 IF Lower(r.val) \notin
                        {<<"i", "n", "t">>, <<"l", "o", "n", "g">>, <<"i", "n", "t", "e", "g", "e", "r">>, <<"s", "h", "o", "r", "t">>, <<"b", "y", "t", "e">>}
                 THEN TOk(r.val, r.unknown \cup {c_type})
                 ELSE r
         IN TThen(translate(tm, Slice(c_type, Find(c_type, <<" ">>, 0) + 1, len), u),
                  Signed)
    ELSE IF Contains(c_type, <<"(">>) /\ Contains(c_type, <<")">>)
    THEN LET idx_1 == Find(c_type, <<"(">>, 0)
             idx_2 == Find(c_type, <<")">>, 0)
             FuncCall(func, inner) ==
                 LET Args(f) ==
                         LET Fmt(a) ==
                                 TOk(f.val \o <<"(">> \o JoinStr(<<",", " ">>, a.val) \o <<")">>,
                                     a.unknown)
                         IN TThen(translate_list(tm, StripAll(Split(inner, <<",">>)),
                                                 f.unknown),
                                  Fmt)
                 IN TThen(translate(tm, func, u), Args)
         IN IF idx_1 = 0 /\ idx_2 = len - 1
            THEN translate(tm, Slice(c_type, 1, -1), u)
            ELSE IF idx_1 > 0 /\ idx_2 = len - 1
            THEN FuncCall(Slice(c_type, 0, idx_1), Slice(c_type, idx_1 + 1, -1))
            ELSE IF idx_1 = 0 /\ c_type[idx_2 + 2] = "("
            THEN \* c_type.index(')', idx_2 + 1) raises when there is none
                 IF Find(c_type, <<")">>, idx_2 + 1) < 0
                 THEN TRaise("ValueError", u)
                 ELSE IF Find(c_type, <<")">>, idx_2 + 1) = len - 1
                 THEN FuncCall(Slice(c_type, 1, idx_2), Slice(c_type, idx_2 + 2, -1))
                 ELSE TOk(default_Java_object, u \cup {c_type})
            ELSE TOk(default_Java_object, u \cup {c_type})
    ELSE TOk(Remove(Title(c_type), "_"), u \cup {c_type})

\* translate(c_type) for a list c_type: [translate(t) for t in c_type]
translate_list(tm, c_types, u) ==
    IF c_types = <<>> THEN TOk(<<>>, u)
    ELSE LET Rest(r) ==
                 LET Cons(rs) == TOk(<<r.val>> \o rs.val, rs.unknown)
                 IN TThen(translate_list(tm, Tail(c_types), r.unknown), Cons)
         IN TThen(translate(tm, Head(c_types), u), Rest)

\* translate(c_type, is_seq) for c_type a str or None
translate_top(tm, c_type, is_seq, u) ==
    LET Array(r) == TOk(r.val \o <<"[", "]">>, r.unknown)
        Plain == IF IsNone(c_type) THEN TOk(default_Java_object, u)
                 ELSE translate(tm, TheValue(c_type), u)
    IN IF is_seq THEN TThen(Plain, Array) ELSE Plain

\* add_type(c_type, j_type)
add_type_to(tm, c_type, j_type) == DPut(tm, c_type, j_type)

-----------------------------------------------------------------------------
(* pegen/action_translator.py: the types of the grammar actions            *)

INITIAL_TYPE_MAP ==
    << <<<<"P", "y", "_", "E", "l", "l", "i", "p", "s", "i", "s">>, <<"P", "y", "P", "e", "g", "e", "n", ".", "E", "l", "l", "i", "p", "s", "i", "s">>>>,
       <<<<"P", "y", "_", "F", "a", "l", "s", "e">>, <<"P", "y", "P", "e", "g", "e", "n", ".", "F", "a", "l", "s", "e">>>>, <<<<"P", "y", "_", "N", "o", "n", "e">>, <<"P", "y", "P", "e", "g", "e", "n", ".", "N", "o", "n", "e">>>>,
       <<<<"P", "y", "_", "T", "r", "u", "e">>, <<"P", "y", "P", "e", "g", "e", "n", ".", "T", "r", "u", "e">>>>, <<<<"a", "s", "d", "l">>, <<"A", "S", "T">>>>,
       <<<<"P", "y", "_", "s", "s", "i", "z", "e", "_", "t">>, <<"i", "n", "t">>>>, <<<<"i", "n", "t">>, <<"i", "n", "t">>>>, <<<<"i", "n", "t", "_", "t", "y">>, <<"i", "n", "t">>>>,
       <<<<"a", "s", "d", "l", "_", "a", "r", "g">>, <<"A", "r", "g">>>>, <<<<"A", "u", "g", "o", "p", "e", "r", "a", "t", "o", "r">>, <<"A", "u", "g", "O", "p", "e", "r", "a", "t", "o", "r">>>>,
       <<<<"c", "o", "n", "s", "t", " ", "c", "h", "a", "r", "*">>, <<"S", "t", "r", "i", "n", "g">>>>,
       <<<<"P", "y", "E", "x", "c", "_", "S", "y", "n", "t", "a", "x", "E", "r", "r", "o", "r">>, <<"P", "y", "E", "x", "c", ".", "S", "y", "n", "t", "a", "x", "E", "r", "r", "o", "r">>>>,
       <<<<"P", "y", "E", "x", "c", "_", "I", "n", "d", "e", "n", "t", "a", "t", "i", "o", "n", "E", "r", "r", "o", "r">>, <<"P", "y", "E", "x", "c", ".", "I", "n", "d", "e", "n", "t", "a", "t", "i", "o", "n", "E", "r", "r", "o", "r">>>>,
       <<<<"i", "d", "e", "n", "t", "i", "f", "i", "e", "r", "_", "t", "y">>, <<"S", "t", "r", "i", "n", "g">>>> >>

\* ActionTranslator.translate_type(type) for a str type, self.type_map = tm
translate_type(tm, type) ==
    IF DHas(tm, type) THEN TOk(DGet(tm, type), {})
    ELSE
    LET brackets == EndsWith(type, <<"[", "]">>)
        t1 == IF brackets THEN Slice(type, 0, -2) ELSE type
        seq == EndsWith(t1, <<"_", "s", "e", "q", "*">>)
        is_seq == (IF brackets THEN 1 ELSE 0) + (IF seq THEN 1 ELSE 0)
        t2 == IF seq THEN Slice(t1, 0, -5)
              ELSE IF EndsWith(t1, <<"*">>) THEN Slice(t1, 0, -1)
              ELSE t1
        t3 == IF StartsWith(t2, <<"a", "s", "d", "l", "_">>)
              THEN Slice(t2, 5, Len(t2)) \o <<"_", "t", "y">>
              ELSE t2
        Arrays(tp) == IF is_seq = 0 THEN tp
                      ELSE IF is_seq = 1 THEN tp \o <<"[", "]">>
                      ELSE tp \o <<"[", "]", "[", "]">>
    IN IF ~seq /\ t1 = <<"v", "o", "i", "d", "*">> THEN TOk(<<"O", "b", "j", "e", "c", "t">>, {})
       ELSE IF DHas(tm, t3) THEN TOk(Arrays(DGet(tm, t3)), {})
       ELSE IF t3 = <<>> THEN TRaise("IndexError", {})    \* type[0]
       ELSE IF IsUpper(t3[1]) /\ ~Contains(t3, <<"_">>) THEN TOk(Arrays(t3), {})
       ELSE IF t3 \in {<<"v", "o", "i", "d">>, <<"i", "n", "t">>} THEN TOk(Arrays(t3), {})
       ELSE IF t3 = <<"c", "o", "n", "s", "t", " ", "c", "h", "a", "r">> THEN TOk(Arrays(<<"S", "t", "r", "i", "n", "g">>), {})
       ELSE TOk(Arrays(Remove(Title(t3), "_")), {})

\* translate_type(type) for type a str or None
translate_type_top(tm, type) ==
    IF IsNone(type) THEN TOk(<<"O", "b", "j", "e", "c", "t">>, {}) ELSE translate_type(tm, TheValue(type))

-----------------------------------------------------------------------------
(* The type tables in use: entries are added to the tables and types are   *)
(* translated, in any order.                                              *)

MaxAdded == 1       \* entries added to the type tables
MaxUnknown == 1     \* unknown_types is left to grow to this size

\* no tokenizer is at work
NoTokenizer ==
    /\ source_text = <<>> /\ source = <<>> /\ index = 0 /\ cache = <<>> /\ if_stack = <<>>
    /\ macros = EmptyDict /\ out = <<>> /\ status = "idle"
    /\ NoGen

\* what a call returned or raised, for the formulas to read
Ret(op, arg, is_seq, r) ==
    [op |-> op, arg |-> arg, is_seq |-> is_seq, exc |-> r.exc, val |-> r.val]

\* java_type_converter as imported, and a new ActionTranslator
InitType ==
    /\ NoTokenizer
    /\ type_map = BuiltinTypeMap
    /\ functions = <<>>
    /\ unknown_types = {}
    /\ at_type_map = INITIAL_TYPE_MAP
    /\ cache_file = None
    /\ cache_loaded = "False"
    /\ ret = Ret("import", None, FALSE, TOk(<<>>, {}))

AddSources == {<<"e", "x", "p", "r">>, <<"F", "o", "o">>, <<"S", "t", "r", "i", "n", "g">>}
AddTargets == {<<"A", "S", "T", "E", "x", "p", "r">>, <<"F", "o", "o">>, <<"n", "e", "w", " ", "F", "o", "o", "(", ")">>}

\* the entries beyond the initial ones
Added == (Len(type_map) - Len(BuiltinTypeMap))
         + (Len(at_type_map) - Len(INITIAL_TYPE_MAP))

\* the target strings stored in a table
Targets(tm) == {tm[k][2] : k \in 1..Len(tm)}

TypeInputs ==
    {<<>>, <<"*">>, <<"[", "]">>, <<"_", "s", "e", "q", "*">>, <<"(", "a", ")", "(">>, <<"(", "a", ")", "(", "b", ")">>, <<"f", "(", "a", ",", " ", "b", ")">>, <<"e", "x", "p", "r", "_", "t", "y">>,
     <<"a", "s", "d", "l", "_", "e", "x", "p", "r", "_", "s", "e", "q", "*">>, <<"f", "o", "o", "_", "b", "a", "r">>, <<"u", "n", "s", "i", "g", "n", "e", "d", " ", "x">>, <<"u", "n", "s", "i", "g", "n", "e", "d", " ", "l", "o", "n", "g">>}

\* add_type(c_type, j_type), both of them str
AddType(sources, targets) ==
    /\ Added < MaxAdded
    /\ \E c_type \in sources, j_type \in targets :
          /\ type_map' = add_type_to(type_map, c_type, j_type)
          /\ ret' = Ret("add_type", Some(c_type), FALSE, TOk(<<>>, {}))
    /\ UNCHANGED <<tokVars, genVars, functions, unknown_types, at_type_map, cache_file,
                   cache_loaded>>

add_type == AddType(AddSources, AddTargets)

\* self.type_map[c_name] = java_expr of ActionTranslator.__init__
at_set_type ==
    /\ Added < MaxAdded
    /\ \E c_name \in AddSources, java_expr \in AddTargets :
          /\ at_type_map' = DPut(at_type_map, c_name, java_expr)
          /\ ret' = Ret("at_set_type", Some(c_name), FALSE, TOk(<<>>, {}))
    /\ UNCHANGED <<tokVars, genVars, type_map, functions, unknown_types, cache_file,
                   cache_loaded>>

\* translate(c_type, is_seq)
translate_call_of_type ==
    \E c_type \in {None} \cup {Some(t) : t \in TypeInputs \cup Targets(type_map)},
       is_seq \in BOOLEAN :
       LET r == translate_top(type_map, c_type, is_seq, unknown_types)
       IN /\ Cardinality(r.unknown) <= MaxUnknown
          /\ unknown_types' = r.unknown
          /\ ret' = Ret("translate", c_type, is_seq, r)
          /\ UNCHANGED <<tokVars, genVars, type_map, functions, at_type_map, cache_file,
                         cache_loaded>>

\* translator.translate_type(type)
translate_type_call ==
    \E type \in {None} \cup {Some(t) : t \in TypeInputs \cup Targets(at_type_map)} :
       /\ ret' = Ret("translate_type", type, FALSE,
                     translate_type_top(at_type_map, type))
       /\ UNCHANGED <<tokVars, genVars, type_map, functions, unknown_types, at_type_map,
                      cache_file, cache_loaded>>

NextType == add_type \/ at_set_type \/ translate_call_of_type \/ translate_type_call

SpecType == InitType /\ [][NextType]_vars

\* the last call translated the str t with the table tm
Translated(op, tm) ==
    /\ ret.op = op
    /\ ~ret.is_seq
    /\ ~IsNone(ret.arg)
    /\ TheValue(ret.arg) \in Targets(tm)

\* C5 as claimed: for every target string t stored as a value in the type
\* map, translating t again returns t unchanged.
C5_FixedPointOnTargets ==
    (Translated("translate", type_map) \/ Translated("translate_type", at_type_map))
        => (ret.exc = "" /\ ret.val = TheValue(ret.arg))

\* one upper-case letter followed by lower-case letters
Capitalised(t) ==
    /\ t # <<>>
    /\ IsUpper(t[1])
    /\ \A k \in 2..Len(t) : IsLower(t[k])

\* t is a target of tm that the amended C5 covers
C5_Covered(tm, t) ==
    /\ t # <<>>
    /\ \/ DHas(tm, t) /\ DGet(tm, t) = t
       \/ ~DHas(tm, t) /\ Capitalised(t)

\* C5 as amended: a non-empty target string t stored in the type map is
\* returned unchanged when translated again, if t is a source key mapped to
\* itself, or is no source key and is one upper-case letter followed by
\* lower-case letters.
C5_FixedPointOnPlainTargets ==
    /\ (Translated("translate", type_map)
            /\ C5_Covered(type_map, TheValue(ret.arg)))
        => (ret.exc = "" /\ ret.val = TheValue(ret.arg))
    /\ (Translated("translate_type", at_type_map)
            /\ C5_Covered(at_type_map, TheValue(ret.arg)))
        => (ret.exc = "" /\ ret.val = TheValue(ret.arg))

\* `String`, a target that is no source key, has been translated again
C5_Witness ==
    /\ Translated("translate", type_map)
    /\ ret.arg = Some(<<"S", "t", "r", "i", "n", "g">>)
    /\ ~DHas(type_map, <<"S", "t", "r", "i", "n", "g">>)
    /\ ret.val = <<"S", "t", "r", "i", "n", "g">>

\* a name made of letters and underscores that no rule of translate strips
PlainName(tm, t) ==
    /\ t # <<>>
    /\ \A k \in 1..Len(t) : IsCased(t[k]) \/ t[k] = "_"
    /\ ~DHas(tm, t)
    /\ ~StartsWith(t, <<"a", "s", "d", "l", "_">>)
    /\ ~EndsWith(t, <<"_", "t", "y">>)

\* C6 as claimed: type translation returns a target type string for every
\* input type string and never raises; a name it cannot resolve is recorded
\* in unknown_types and returned in identifier casing.
C6_TranslationIsTotal ==
    /\ ret.op \in {"translate", "translate_type"} => ret.exc = ""
    /\ (ret.op = "translate" /\ ~ret.is_seq /\ ~IsNone(ret.arg)
            /\ PlainName(type_map, TheValue(ret.arg)))
        => /\ TheValue(ret.arg) \in unknown_types
           /\ ret.val = Remove(Title(TheValue(ret.arg)), "_")

-----------------------------------------------------------------------------
(* codegen/java_type_converter.py: the rewriting of C function calls       *)

\* add_function(c_func, c_args, j_func, j_args): c_func a str; j_func a str
\* or None; c_args and j_args None, a str ("str") or a list ("list")
NoArgs == [kind |-> "none", v |-> <<>>]
StrArgs(s) == [kind |-> "str", v |-> s]
ListArgs(l) == [kind |-> "list", v |-> l]
ArgTuple(a) ==
    IF a.kind = "none" THEN <<>>
    ELSE IF a.kind = "str" THEN Split(a.v, <<",">>)
    ELSE a.v

\* the outcome of add_function: functions after it, or ValueError
add_function_to(fs, c_func, c_args, j_func, j_args) ==
    IF c_func = <<>>
    THEN [exc |-> "ValueError", functions |-> fs]
    ELSE [exc |-> "",
          functions |-> DPut(fs, c_func,
                             <<j_func, ArgTuple(c_args), ArgTuple(j_args)>>)]

\* splt of separate_names_and_types: <<name, type>> of one declaration
splt(s) ==
    LET a == RFind(s, " ")
        b == RFind(s, "*")
        i == IF a > b THEN a ELSE b
    IN <<Slice(s, i + 1, Len(s)), Strip(Slice(s, 0, i + 1))>>

\* separate_names_and_types(args): the dict name -> type
RECURSIVE separate_from(_, _)
separate_from(d, args) ==
    IF args = <<>> THEN d
    ELSE LET nt == splt(Head(args))
         IN separate_from(DPut(d, nt[1], nt[2]), Tail(args))
separate_names_and_types(args) == separate_from(<<>>, args)

\* the first position of names whose name satisfies Test, 0 when none does
FirstSuch(names, Test(_)) ==
    LET hits == {i \in 1..Len(names) : Test(names[i])}
    IN IF hits = {} THEN 0 ELSE CHOOSE i \in hits : \A h \in hits : i <= h

\* match_arg with the underscores removed from the target name as well
match_arg_both_plain(c_arg_names, j_name) ==
    LET Tier1(c_name) ==
            Remove(Lower(c_name), "_") = Remove(Lower(j_name), "_")
        Tier2(c_name) ==
            /\ Len(c_name) * 2 >= Len(j_name)
            /\ \/ Contains(Lower(j_name), Lower(c_name))
               \/ Contains(Lower(j_name), Remove(Lower(c_name), "_"))
        i1 == FirstSuch(c_arg_names, Tier1)
    IN IF i1 > 0 THEN i1 ELSE FirstSuch(c_arg_names, Tier2)

\* the source parameter that the loops of lines 239-252 find for j_name:
\* its position in c_arg_names, 0 when the loops end without a break
match_arg(c_arg_names, j_name) ==
    LET Tier1(c_name) == Remove(Lower(c_name), "_") = Lower(j_name)
        Tier2(c_name) ==
            /\ Len(c_name) * 2 >= Len(j_name)
            /\ \/ Contains(Lower(j_name), Lower(c_name))
               \/ Contains(Lower(j_name), Remove(Lower(c_name), "_"))
        i1 == FirstSuch(c_arg_names, Tier1)
    IN IF i1 > 0 THEN i1 ELSE FirstSuch(c_arg_names, Tier2)

\* str(x) of a str or None
StrOf(o) == IF IsNone(o) THEN <<"N", "o", "n", "e">> ELSE TheValue(o)

\* the for loop of lines 237-258 from the target parameter at position k on:
\* c_arg_dict and c_arg_names as it leaves them, or the TypeError it raises
RECURSIVE bind_args(_, _, _, _, _, _)
bind_args(c_func, j_func, j_arg_names, k, c_arg_dict, c_arg_names) ==
    IF k > Len(j_arg_names)
    THEN [exc |-> "", msg |-> <<>>, c_arg_dict |-> c_arg_dict,
          c_arg_names |-> c_arg_names]
    ELSE LET j_name == j_arg_names[k]
             i == match_arg(c_arg_names, j_name)
         IN IF IndexOf(c_arg_names, j_name) > 0
            THEN bind_args(c_func, j_func, j_arg_names, k + 1, c_arg_dict,
                           c_arg_names)
            ELSE IF i > 0
            THEN bind_args(c_func, j_func, j_arg_names, k + 1,
                           DPut(c_arg_dict, j_name,
                                DGet(c_arg_dict, c_arg_names[i])),
                           [c_arg_names EXCEPT ![i] = j_name])
            ELSE [exc |-> "TypeError",
                  msg |-> <<"c", "a", "n", "n", "o", "t", " ", "t", "r", "a", "n", "s", "l", "a", "t", "e", " ">> \o c_func \o <<"-", ">">> \o StrOf(j_func)
                          \o <<" ", "b", "e", "c", "a", "u", "s", "e", " ", "o", "f", " ", "m", "i", "s", "s", "i", "n", "g", " ", "a", "r", "g", "u", "m", "e", "n", "t", " ", "(">> \o <<"'">>
                          \o j_name \o <<"'">> \o <<" ", "i", "n", " ">> \o <<"'">>
                          \o c_func \o <<"(">> \o JoinStr(<<",", " ">>, c_arg_names)
                          \o <<")", "-", ">">> \o c_func \o <<"(">>
                          \o JoinStr(<<",", " ">>, j_arg_names) \o <<")">> \o <<"'">>
                          \o <<")">>,
                  c_arg_dict |-> c_arg_dict, c_arg_names |-> c_arg_names]

\* make_int_to_bool(value, name)
make_int_to_bool(int_to_bools, value, name) ==
    IF name \in int_to_bools
    THEN IF value = <<"0">> THEN <<"f", "a", "l", "s", "e">>
         ELSE IF value = <<"1">> THEN <<"t", "r", "u", "e">>
         ELSE value \o <<" ", "!", "=", " ", "0">>
    ELSE value

\* {name: arg for name, arg in zip(c_arg_names, args)}
RECURSIVE zip_dict(_, _, _)
zip_dict(d, names, args) ==
    IF names = <<>> \/ args = <<>> THEN d
    ELSE zip_dict(DPut(d, Head(names), Head(args)), Tail(names), Tail(args))

\* what translate_call returns (val: a str or None) or raises, and functions
\* as it leaves them
CallResult(exc, msg, val, fs) ==
    [exc |-> exc, msg |-> msg, val |-> val, functions |-> fs]

\* lines 270-280 for an entry m of six elements
assemble(fs, m, args) ==
    LET j_func == m[1]
        c_arg_names == m[4]
        j_arg_names == m[5]
        int_to_bools == m[6]
        arg_dict == zip_dict(<<>>, c_arg_names, args)
        new_args == [k \in 1..Len(j_arg_names) |->
                        make_int_to_bool(int_to_bools,
                                         DGet(arg_dict, j_arg_names[k]),
                                         j_arg_names[k])]
    IN IF \E k \in 1..Len(j_arg_names) : ~DHas(arg_dict, j_arg_names[k])
       THEN CallResult("KeyError", <<>>, None, fs)
       ELSE IF ~IsNone(j_func) /\ TheValue(j_func) # <<>>
       THEN CallResult("", <<>>,
                       Some(TheValue(j_func) \o <<"(">>
                            \o JoinStr(<<",", " ">>, new_args) \o <<")">>),
                       fs)
       ELSE IF Len(new_args) = 0 THEN CallResult("", <<>>, Some(<<>>), fs)
       ELSE IF Len(new_args) = 1 THEN CallResult("", <<>>, Some(new_args[1]), fs)
       ELSE CallResult("", <<>>, None, fs)

\* translate_call(c_func, args) with functions = fs
translate_call(fs, c_func, args) ==
    IF ~DHas(fs, c_func) THEN CallResult("", <<>>, None, fs)
    ELSE
    LET m == DGet(fs, c_func)
    IN IF Len(m) = 3
       THEN LET j_func == m[1]
                c_args == m[2]
                j_args == m[3]
                c_arg_dict == separate_names_and_types(c_args)
                j_arg_dict == separate_names_and_types(j_args)
                j_arg_names == DKeys(j_arg_dict)
                b == bind_args(c_func, j_func, j_arg_names, 1, c_arg_dict,
                               DKeys(c_arg_dict))
                int_to_bools ==
                    {j_arg_dict[k][1] : k \in
                        {k \in 1..Len(j_arg_dict) :
                            /\ Lower(j_arg_dict[k][2]) = <<"b", "o", "o", "l", "e", "a", "n">>
                            /\ DGet(b.c_arg_dict, j_arg_dict[k][1]) = <<"i", "n", "t">>}}
                m6 == <<j_func, c_args, j_args, b.c_arg_names, j_arg_names,
                        int_to_bools>>
            IN IF b.exc # "" THEN CallResult(b.exc, b.msg, None, fs)
               ELSE assemble(DPut(fs, c_func, m6), m6, args)
       ELSE assemble(fs, m, args)

-----------------------------------------------------------------------------
(* The call rewrites in use: a C function is registered with add_function  *)
(* and calls of it are translated.                                        *)

MaxParams == 2      \* parameters of a registered function, arguments of a call

CDecls == {<<"i", "n", "t", " ", "s", "i", "m", "p", "l", "e">>, <<"i", "n", "t", " ", "S", "i", "m", "p", "l", "e">>, <<"i", "n", "t", " ", "i", "s", "S", "i", "m", "p", "l", "e">>}
JDecls == {<<"b", "o", "o", "l", "e", "a", "n", " ", "s", "i", "m", "p", "l", "e">>, <<"b", "o", "o", "l", "e", "a", "n", " ", "i", "s", "_", "s", "i", "m", "p", "l", "e">>, <<"i", "n", "t", " ", "S", "i", "m", "p", "l", "e">>}
FuncNames == {<<"F">>}
CallNames == {<<"F">>, <<"G">>}
JFuncs == {None, Some(<<"n", "e", "w", " ", "F">>)}

\* the arguments of a call, as Java expressions
CallArgs == <<<<"1">>, <<"v">>, <<"0">>, <<"w">>>>

\* what the last call returned or raised, for the formulas to read
CallRet(op, c_func, args, r) ==
    [op |-> op, c_func |-> c_func, args |-> args, exc |-> r.exc,
     msg |-> r.msg, val |-> r.val]

InitRewrite ==
    /\ NoTokenizer
    /\ type_map = BuiltinTypeMap
    /\ functions = <<>>
    /\ unknown_types = {}
    /\ at_type_map = INITIAL_TYPE_MAP
    /\ cache_file = None
    /\ cache_loaded = "False"
    /\ ret = CallRet("import", <<>>, <<>>, CallResult("", <<>>, None, <<>>))

\* the registrations tried: <<c_func, c_args, j_func, j_args>>
RewriteRegs ==
    {<<c_func, c_args, j_func, j_args>> :
        c_func \in FuncNames, j_func \in JFuncs,
        c_args \in {NoArgs, StrArgs(<<"i", "n", "t", " ", "s", "i", "m", "p", "l", "e", ",", "i", "n", "t", " ", "S", "i", "m", "p", "l", "e">>)}
                      \cup {ListArgs(l) : l \in SeqsUpTo(CDecls, MaxParams)},
        j_args \in {NoArgs, StrArgs(<<"i", "n", "t", " ", "S", "i", "m", "p", "l", "e">>)}
                      \cup {ListArgs(l) : l \in SeqsUpTo(JDecls, MaxParams)}}

\* add_function(c_func, c_args, j_func, j_args) for a registration of regs;
\* a name is registered once
AddFunction(regs) ==
    \E reg \in regs :
       LET r == add_function_to(functions, reg[1], reg[2], reg[3], reg[4])
       IN /\ ~DHas(functions, reg[1])
          /\ functions' = r.functions
          /\ ret' = CallRet("add_function", reg[1], <<>>,
                            CallResult(r.exc, <<>>, None, <<>>))
          /\ UNCHANGED <<tokVars, genVars, type_map, unknown_types, at_type_map,
                         cache_file, cache_loaded>>

\* translate_call(c_func, args) for a c_func of names, the args being str
TranslateCall(names) ==
    \E c_func \in names, n \in 0..MaxParams :
       LET args == SubSeq(CallArgs, 1, n)
           r == translate_call(functions, c_func, args)
       IN /\ functions' = r.functions
          /\ ret' = CallRet("translate_call", c_func, args, r)
          /\ UNCHANGED <<tokVars, genVars, type_map, unknown_types, at_type_map,
                         cache_file, cache_loaded>>

add_function == AddFunction(RewriteRegs)
translate_call_step == TranslateCall(CallNames)

NextRewrite == add_function \/ translate_call_step

SpecRewrite == InitRewrite /\ [][NextRewrite]_vars

\* the declared names of the parameters of a registered entry
SourceNames(m) == DKeys(separate_names_and_types(m[2]))
TargetNames(m) == DKeys(separate_names_and_types(m[3]))

\* the last call was translate_call of a registered function
CalledRegistered == ret.op = "translate_call" /\ DHas(functions, ret.c_func)

\* the error names the call and the target parameter
NamesCallAndParameter(msg, c_func, j_name) ==
    /\ Contains(msg, c_func \o <<"(">>)
    /\ Contains(msg, <<"'">> \o j_name \o <<"'">>)

\* The binding C7 claims for the target parameter j among the source
\* parameter names cs: the first equal to it ignoring case and underscores,
\* else the first such that the shorter of the two names is at least half as
\* long as the longer and contained in it; 0 when there is none.
ClaimedMatch(cs, j) ==
    LET Plain(n) == Remove(Lower(n), "_")
        Equal(c) == Plain(c) = Plain(j)
        Covers(c) ==
            IF Len(c) <= Len(j)
            THEN Len(c) * 2 >= Len(j) /\ Contains(Lower(j), Lower(c))
            ELSE Len(j) * 2 >= Len(c) /\ Contains(Lower(c), Lower(j))
        i1 == FirstSuch(cs, Equal)
    IN IF i1 > 0 THEN i1 ELSE FirstSuch(cs, Covers)

\* C7 as claimed: each target parameter is bound to the first source
\* parameter equal to it ignoring case and underscores, else to the first
\* one such that the shorter name is at least half the longer and contained
\* in it; when there is none the call raises an error naming the call and
\* the parameter, and nothing is translated.
C7_BindingAsClaimed ==
    /\ \A f \in 1..Len(functions) :
          LET m == functions[f][2]
          IN Len(m) = 6 =>
                \A k \in 1..Len(m[5]) :
                    LET i == ClaimedMatch(SourceNames(m), m[5][k])
                    IN i > 0 /\ m[4][i] = m[5][k]
    /\ CalledRegistered =>
          LET m == DGet(functions, ret.c_func)
              unmatched == {k \in 1..Len(TargetNames(m)) :
                              ClaimedMatch(SourceNames(m), TargetNames(m)[k]) = 0}
          IN IF unmatched = {}
             THEN ret.exc # "TypeError"
             ELSE /\ ret.exc = "TypeError"
                  /\ IsNone(ret.val)
                  /\ \E k \in unmatched :
                        NamesCallAndParameter(ret.msg, ret.c_func,
                                              TargetNames(m)[k])

\* The source parameter names after the target parameters js[k..] are bound:
\* a target parameter that is the name of a source parameter keeps it; else
\* it replaces the first name that, lower-cased and without underscores,
\* equals it lower-cased; else the first name at least half as long as it
\* that, lower-cased, with or without its underscores, occurs in it
\* lower-cased.  <<"unmatched", j>> when no name qualifies for j.
RECURSIVE BoundNames(_, _, _)
BoundNames(cs, js, k) ==
    IF k > Len(js) THEN <<"bound", cs>>
    ELSE LET j == js[k]
             same == {i \in 1..Len(cs) : cs[i] = j}
             equal == {i \in 1..Len(cs) : Remove(Lower(cs[i]), "_") = Lower(j)}
             covers == {i \in 1..Len(cs) :
                          /\ 2 * Len(cs[i]) >= Len(j)
                          /\ \/ Contains(Lower(j), Lower(cs[i]))
                             \/ Contains(Lower(j), Remove(Lower(cs[i]), "_"))}
             Min(S) == CHOOSE i \in S : \A h \in S : i <= h
         IN IF same # {} THEN BoundNames(cs, js, k + 1)
            ELSE IF equal # {}
            THEN BoundNames([cs EXCEPT ![Min(equal)] = j], js, k + 1)
            ELSE IF covers # {}
            THEN BoundNames([cs EXCEPT ![Min(covers)] = j], js, k + 1)
            ELSE <<"unmatched", j>>

\* C7 as amended: translate_call binds the target parameters in declaration
\* order, each to the source parameter of the same name, else to the first
\* source parameter whose lower-cased name without underscores equals the
\* lower-cased target name, else to the first one at least half as long as
\* the target name whose lower-cased name, with or without its underscores,
\* occurs in the lower-cased target name, a bound source parameter going by
\* the name of its target from then on; when there is none the call raises
\* a TypeError naming the call and the parameter, returns nothing and
\* leaves the registered entry as it was.
C7_BindingInCodeOrder ==
    /\ \A f \in 1..Len(functions) :
          LET m == functions[f][2]
          IN Len(m) = 6 => <<"bound", m[4]>> =
                              BoundNames(SourceNames(m), TargetNames(m), 1)
    /\ CalledRegistered =>
          LET m == DGet(functions, ret.c_func)
              b == BoundNames(SourceNames(m), TargetNames(m), 1)
          IN IF b[1] = "bound"
             THEN ret.exc # "TypeError" /\ Len(m) = 6
             ELSE /\ ret.exc = "TypeError"
                  /\ IsNone(ret.val)
                  /\ Len(m) = 3
                  /\ NamesCallAndParameter(ret.msg, ret.c_func, b[2])

\* `is_simple` has been bound to `simple`, which it contains, and the int
\* argument 1 has become the boolean true
C7_Witness ==
    /\ CalledRegistered
    /\ ret.exc = ""
    /\ ret.val = Some(<<"n", "e", "w", " ", "F", "(", "t", "r", "u", "e", ")">>)
    /\ LET m == DGet(functions, ret.c_func)
       IN /\ SourceNames(m) = <<<<"s", "i", "m", "p", "l", "e">>>>
          /\ TargetNames(m) = <<<<"i", "s", "_", "s", "i", "m", "p", "l", "e">>>>
          /\ m[4] = <<<<"i", "s", "_", "s", "i", "m", "p", "l", "e">>>>

\* C8 as claimed: a registered call without a target function name
\* translates to its sole target argument when exactly one target parameter
\* is defined and to the empty string otherwise, never to None, which is
\* what an undeclared function gives.
C8_NoTargetNameCollapses ==
    (CalledRegistered /\ ret.exc = ""
        /\ IsNone(DGet(functions, ret.c_func)[1]))
    => LET m == DGet(functions, ret.c_func)
       IN /\ ~IsNone(ret.val)
          /\ IF Len(m[5]) = 1
             THEN \E k \in 1..Len(ret.args) :
                     TheValue(ret.val) \in
                        {ret.args[k],
                         make_int_to_bool({m[5][1]}, ret.args[k], m[5][1])}
             ELSE TheValue(ret.val) = <<>>

-----------------------------------------------------------------------------
(* codegen/java_type_converter.py: the cache file.  The file is the         *)
(* sequence of its lines, each without its newline; None when there is no  *)
(* file.                                                                   *)

\* the outcome of _try_load_cache: the tables and _CACHE_FILE_LOADED as it
\* leaves them, and the exception it lets through, if any
Loaded(exc, tm, fs, flag) ==
    [exc |-> exc, type_map |-> tm, functions |-> fs, loaded |-> flag]

\* the body of the for loop of _try_load_cache, from the first of lines on
RECURSIVE load_lines(_, _, _, _)
load_lines(lines, tm, fs, flag) ==
    IF lines = <<>> THEN Loaded("", tm, fs, "True")
    ELSE
    LET parts == Split(Strip(Head(lines)), <<"-", ">">>)
        c_t == parts[1]
        j_t == parts[2]
        c_idx == Find(c_t, <<"(">>, 0)
        j_idx == Find(j_t, <<"(">>, 0)
        c_func == Slice(c_t, 0, c_idx)
        j_func == Slice(j_t, 0, j_idx)
        c_args == StripAll(Split(Slice(c_t, c_idx + 1, -1), <<",">>))
        j_args == StripAll(Split(Slice(j_t, j_idx + 1, -1), <<",">>))
    IN IF Len(parts) < 2
       THEN Loaded("", tm, fs, "parse error")   \* not enough values to unpack
       ELSE IF Len(parts) > 2
       THEN Loaded("ValueError", tm, fs, flag)  \* too many values to unpack
       ELSE IF c_idx >= 0 /\ j_idx >= 0
       THEN load_lines(Tail(lines), tm,
                       DPut(fs, c_func, <<Some(j_func), c_args, j_args>>), flag)
       ELSE load_lines(Tail(lines), DPut(tm, c_t, j_t), fs, flag)

\* _try_load_cache()
try_load_cache(file, tm, fs, flag) ==
    IF IsNone(file) THEN Loaded("", tm, fs, "to be created")
    ELSE load_lines(TheValue(file), tm, fs, flag)

\* the lines that _save_to_cache writes
save_lines(tm, fs) ==
    [k \in 1..Len(tm) |-> tm[k][1] \o <<"-", ">">> \o tm[k][2]]
    \o [k \in 1..Len(fs) |->
            fs[k][1] \o <<"(">> \o JoinStr(<<",">>, fs[k][2][2]) \o <<")", "-", ">">>
            \o StrOf(fs[k][2][1]) \o <<"(">> \o JoinStr(<<",">>, fs[k][2][3]) \o <<")">>]

\* _save_to_cache(): the file after it
save_to_cache_file(file, tm, fs, flag) ==
    IF flag # "False" THEN Some(save_lines(tm, fs)) ELSE file

-----------------------------------------------------------------------------
(* One run of a tool with a cache file: the file found at the start is      *)
(* loaded, types and call rewrites are added and used, and the tables are  *)
(* saved when the interpreter exits.                                       *)

MaxCacheLines == 2      \* lines of the cache file found at the start

CacheLines ==
    {<<"e", "x", "p", "r", "-", ">", "A", "S", "T", "E", "x", "p", "r">>, <<"F", "(", "i", "n", "t", " ", "x", ")", "-", ">", "n", "e", "w", " ", "F", "(", "i", "n", "t", " ", "x", ")">>, <<>>, <<"e", "x", "p", "r">>, <<"a", "-", ">", "b", "-", ">", "c">>}

CacheRegs ==
    { <<<<"F">>, ListArgs(<<<<"i", "n", "t", " ", "x">>>>), Some(<<"n", "e", "w", " ", "F">>), ListArgs(<<<<"i", "n", "t", " ", "x">>>>)>>,
      <<<<"C", "H", "E", "C", "K">>, ListArgs(<<<<"P", "a", "r", "s", "e", "r", " ", "*", "p">>, <<"v", "o", "i", "d", " ", "*", "r", "e", "s", "u", "l", "t">>>>), None,
        ListArgs(<<<<"O", "b", "j", "e", "c", "t", " ", "r", "e", "s", "u", "l", "t">>>>)>>,
      <<<<"E">>, NoArgs, Some(<<"e">>), NoArgs>> }
CacheSource == <<"e", "x", "p", "r">>
CacheTarget == <<"A", "S", "T", "E", "x", "p", "r">>
CacheCallNames == {<<"F">>, <<"C", "H", "E", "C", "K">>, <<"E">>}

InitCache ==
    /\ NoTokenizer
    /\ type_map = BuiltinTypeMap
    /\ functions = <<>>
    /\ unknown_types = {}
    /\ at_type_map = INITIAL_TYPE_MAP
    /\ cache_file \in {None} \cup
                      {Some(l) : l \in SeqsUpTo(CacheLines, MaxCacheLines)}
    /\ cache_loaded = "False"
    /\ ret = CallRet("import", <<>>, <<>>, CallResult("", <<>>, None, <<>>))

\* the interpreter has not exited, and no exception has ended the run
Alive ==
    /\ ret.op # "exit"
    /\ ~(ret.op = "set_cache_file_path" /\ ret.exc # "")

\* set_cache_file_path(filepath), the first thing a tool does
set_cache_file_path ==
    /\ ret.op = "import"
    /\ LET l == try_load_cache(cache_file, type_map, functions, cache_loaded)
       IN /\ type_map' = l.type_map
          /\ functions' = l.functions
          /\ cache_loaded' = l.loaded
          /\ ret' = CallRet("set_cache_file_path", <<>>, <<>>,
                            CallResult(l.exc, <<>>, None, <<>>))
    /\ UNCHANGED <<tokVars, genVars, unknown_types, at_type_map, cache_file>>

\* _save_to_cache(), registered with atexit
save_to_cache ==
    /\ ret.op # "exit"
    /\ cache_file' = save_to_cache_file(cache_file, type_map, functions,
                                        cache_loaded)
    /\ ret' = CallRet("exit", <<>>, <<>>, CallResult("", <<>>, None, <<>>))
    /\ UNCHANGED <<tokVars, genVars, type_map, functions, unknown_types, at_type_map,
                   cache_loaded>>

NextCache ==
    \/ set_cache_file_path
    \/ Alive /\ AddType({CacheSource}, {CacheTarget})
    \/ Alive /\ AddFunction(CacheRegs)
    \/ Alive /\ TranslateCall(CacheCallNames)
    \/ save_to_cache

SpecCache == InitCache /\ [][NextCache]_vars

\* C9 as claimed: the tables saved at exit, loaded into a new run, are the
\* tables again: every type entry has its target string, every call rewrite
\* its target name and its source and target parameter lists, and
\* translate_call gives what it gave.
C9_RoundTripReproduces ==
    (ret.op = "exit" /\ cache_loaded # "False") =>
        LET l == try_load_cache(cache_file, BuiltinTypeMap, <<>>, "False")
        IN /\ l.exc = ""
           /\ \A k \in 1..Len(type_map) :
                 /\ DHas(l.type_map, type_map[k][1])
                 /\ DGet(l.type_map, type_map[k][1]) = type_map[k][2]
           /\ DKeys(l.functions) = DKeys(functions)
           /\ \A k \in 1..Len(functions) :
                 LET m == functions[k][2]
                     n == l.functions[k][2]
                 IN n[1] = m[1] /\ n[2] = m[2] /\ n[3] = m[3]
           /\ \A c_func \in CacheCallNames, n \in 0..MaxParams :
                 LET args == SubSeq(CallArgs, 1, n)
                     before == translate_call(functions, c_func, args)
                     after == translate_call(l.functions, c_func, args)
                 IN after.exc = before.exc /\ after.val = before.val

\* line.strip().split('->') gives the two values the loop unpacks
WellFormedLine(line) == Len(Split(Strip(line), <<"-", ">">>)) = 2

\* the lines before the first malformed one
RECURSIVE WellFormedPrefix(_)
WellFormedPrefix(lines) ==
    IF lines = <<>> \/ ~WellFormedLine(Head(lines)) THEN <<>>
    ELSE <<Head(lines)>> \o WellFormedPrefix(Tail(lines))

\* C10 as claimed: loading the cache file never raises; the tables are the
\* defaults with the entries of the lines before the first malformed line.
C10_LoadNeverRaises ==
    ret.op = "set_cache_file_path" =>
        LET lines == IF IsNone(cache_file) THEN <<>> ELSE TheValue(cache_file)
            l == load_lines(WellFormedPrefix(lines), BuiltinTypeMap, <<>>,
                            "False")
        IN /\ ret.exc = ""
           /\ type_map = l.type_map
           /\ functions = l.functions

-----------------------------------------------------------------------------
(* One run of asdl_java.py as a process: main() sets the cache file path,   *)
(* which loads the file; it may leave through sys.exit(1); it adds types;  *)
(* call rewrites are added and used as in the other tools.  An exception   *)
(* that nothing catches ends the run with exit code 1.  However the run    *)
(* ends, the interpreter then calls the functions registered with atexit,  *)
(* of which _save_to_cache is one.                                         *)

\* the interpreter: where it is, its exit code once main has ended, how
\* often the cache file has been opened for writing, and the file it found
Process(at, exit_code, writes, file_at_start) ==
    [at |-> at, exit_code |-> exit_code, writes |-> writes,
     file_at_start |-> file_at_start]

InitRun ==
    /\ source_text = <<>> /\ source = <<>> /\ index = 0 /\ cache = <<>> /\ if_stack = <<>>
    /\ macros = EmptyDict /\ out = <<>> /\ status = "idle"
    /\ type_map = BuiltinTypeMap
    /\ functions = <<>>
    /\ unknown_types = {}
    /\ at_type_map = INITIAL_TYPE_MAP
    /\ cache_file \in {None} \cup
                      {Some(l) : l \in SeqsUpTo(CacheLines, MaxCacheLines)}
    /\ cache_loaded = "False"
    /\ ret = CallRet("import", <<>>, <<>>, CallResult("", <<>>, None, <<>>))
    /\ process = Process("main", None, 0, cache_file)
    /\ classes = <<>> /\ method = <<>> /\ emitted = <<>> /\ jvm = <<>>
    /\ at_methods = <<>> /\ parser_context = <<>>

\* the run ends with exit_code and the atexit functions are due
Exits(exit_code) == [process EXCEPT !.at = "atexit", !.exit_code = Some(exit_code)]

\* what a call that raised exc, or returned when exc is "", does to the run
AfterCall(exc) == IF exc = "" THEN process ELSE Exits(1)

\* main(): set_cache_file_path(context.type_map)
main_set_cache_file_path ==
    /\ process.at = "main"
    /\ LET l == try_load_cache(cache_file, type_map, functions, cache_loaded)
       IN /\ type_map' = l.type_map
          /\ functions' = l.functions
          /\ cache_loaded' = l.loaded
          /\ ret' = CallRet("set_cache_file_path", <<>>, <<>>,
                            CallResult(l.exc, <<>>, None, <<>>))
          /\ process' = IF l.exc = "" THEN [process EXCEPT !.at = "running"]
                        ELSE Exits(1)
    /\ UNCHANGED <<tokVars, unknown_types, at_type_map, cache_file, javaVars, actVars>>

\* main(): `if not asdl.check(mod): sys.exit(1)`, before any type is added
main_sys_exit ==
    /\ process.at = "running"
    /\ ret.op = "set_cache_file_path"
    /\ process' = Exits(1)
    /\ ret' = CallRet("sys.exit", <<>>, <<>>,
                      CallResult("SystemExit", <<>>, None, <<>>))
    /\ UNCHANGED <<tokVars, ttVarsButRet, javaVars, actVars>>

\* main(): add_type(key, value)
main_add_type ==
    /\ process.at = "running"
    /\ AddType({CacheSource}, {CacheTarget})

\* add_function(c_func, c_args, j_func, j_args); a name is registered once
run_add_function ==
    /\ process.at = "running"
    /\ \E reg \in CacheRegs :
          LET r == add_function_to(functions, reg[1], reg[2], reg[3], reg[4])
          IN /\ ~DHas(functions, reg[1])
             /\ functions' = r.functions
             /\ ret' = CallRet("add_function", reg[1], <<>>,
                               CallResult(r.exc, <<>>, None, <<>>))
             /\ process' = AfterCall(r.exc)
    /\ UNCHANGED <<tokVars, type_map, unknown_types, at_type_map, cache_file,
                   cache_loaded, javaVars, actVars>>

\* translate_call(c_func, args)
run_translate_call ==
    /\ process.at = "running"
    /\ \E c_func \in CacheCallNames \cup {<<"G">>}, n \in 0..MaxParams :
          LET args == SubSeq(CallArgs, 1, n)
              r == translate_call(functions, c_func, args)
          IN /\ functions' = r.functions
             /\ ret' = CallRet("translate_call", c_func, args, r)
             /\ process' = AfterCall(r.exc)
    /\ UNCHANGED <<tokVars, type_map, unknown_types, at_type_map, cache_file,
                   cache_loaded, javaVars, actVars>>

\* main() returns and the script ends
main_returns ==
    /\ process.at = "running"
    /\ process' = Exits(0)
    /\ ret' = CallRet("return", <<>>, <<>>, CallResult("", <<>>, None, <<>>))
    /\ UNCHANGED <<tokVars, ttVarsButRet, javaVars, actVars>>

\* the interpreter shuts down: _save_to_cache(), registered with atexit
atexit_save_to_cache ==
    /\ process.at = "atexit"
    /\ cache_file' = save_to_cache_file(cache_file, type_map, functions,
                                        cache_loaded)
    /\ process' = [process EXCEPT
                      !.at = "exited",
                      !.writes = IF cache_loaded # "False" THEN @ + 1 ELSE @]
    /\ UNCHANGED <<tokVars, type_map, functions, unknown_types, at_type_map,
                   cache_loaded, ret, javaVars, actVars>>

NextRun ==
    \/ main_set_cache_file_path
    \/ main_sys_exit
    \/ main_add_type
    \/ run_add_function
    \/ run_translate_call
    \/ main_returns
    \/ atexit_save_to_cache

SpecRun == InitRun /\ [][NextRun]_vars

\* C11 as claimed: the cache file is written at most once in a run, at
\* exit; while the run lasts it is as it was found, whatever is added to or
\* asked of the maps; and a run that ended with an error leaves it as it
\* was found, never having opened it for writing.
C11_WrittenOnlyAtCleanExit ==
    /\ process.writes <= 1
    /\ process.at # "exited" =>
          process.writes = 0 /\ cache_file = process.file_at_start
    /\ (process.at = "exited" /\ process.exit_code # Some(0)) =>
          process.writes = 0 /\ cache_file = process.file_at_start

-----------------------------------------------------------------------------
(* codegen/javagen.py.  Java code is text: a str of the source is a string  *)
(* here, an f-string is the concatenation of its parts.  An object is a    *)
(* record of its fields; a JavaClass is referred to by its name, the       *)
(* classes of a run being kept in `classes`.  Comments and generics are    *)
(* never given (None), nested classes and imports are never added.         *)

\* s[k] of a str, counting from 1
Char(s, k) == SubSeq(s, k, k)

\* sep.join(parts)
RECURSIVE join(_, _)
join(sep, parts) ==
    IF parts = <<>> THEN ""
    ELSE IF Len(parts) = 1 THEN parts[1]
    ELSE parts[1] \o sep \o join(sep, Tail(parts))

\* s.replace(c, '') for a character c
RECURSIVE str_remove(_, _)
str_remove(s, c) ==
    IF s = "" THEN ""
    ELSE (IF Head(s) = c THEN "" ELSE Head(s)) \o str_remove(Tail(s), c)

\* s.title(): a letter that follows a letter is made lower case, any other
\* letter upper case
RECURSIVE str_title_from(_, _)
str_title_from(s, after_letter) ==
    IF s = "" THEN ""
    ELSE LET c == Head(s)
             cased == IsUpper(c) \/ IsLower(c)
         IN (IF after_letter THEN LowerChar(c) ELSE UpperChar(c))
            \o str_title_from(Tail(s), cased)

str_title(s) == str_title_from(s, FALSE)

_JAVA_KEYWORDS ==
    {"abstract", "continue", "for", "new", "switch",
     "assert", "default", "goto", "package", "synchronized",
     "boolean", "do", "if", "private", "this",
     "break", "double", "implements", "protected", "throw",
     "byte", "else", "import", "public", "throws",
     "case", "enum", "instanceof", "return", "transient",
     "catch", "extends", "int", "short", "try",
     "char", "final", "interface", "static", "void",
     "class", "finally", "long", "strictfp", "volatile",
     "const", "float", "native", "super", "while",
     "List", "Set", "Map"}

_JAVA_DEFAULT_VALUES ==
    <<<<"boolean", "false">>, <<"byte", "0">>, <<"char", "'\\u0000'">>,
      <<"double", "0.0d">>, <<"float", "0.0f">>, <<"int", "0">>,
      <<"long", "0L">>, <<"short", "0">>, <<"String", "null">>>>

_JAVA_PRIMITIVES ==
    <<<<"boolean", "Boolean">>, <<"byte", "Byte">>, <<"char", "Character">>,
      <<"double", "Double">>, <<"int", "Integer">>, <<"long", "Long">>,
      <<"short", "Short">>>>

_JAVA_DEFAULT_METHODS == {"equals", "hashCode", "toString"}

default_value_for_j_type(j_type) ==
    IF DHas(_JAVA_DEFAULT_VALUES, j_type) THEN DGet(_JAVA_DEFAULT_VALUES, j_type)
    ELSE "null"

-----------------------------------------------------------------------------
(* JavaVariable *)

\* JavaVariable(name, j_type, init_value, is_optional=..., is_final=...,
\* is_static=..., is_private=..., is_exposed=...); init_value is None or
\* Some(str)
JavaVariableWith(name, j_type, init_value, is_optional, flags) ==
    [name |-> name,
     j_type |-> j_type,
     init_value |-> IF is_optional /\ IsNone(init_value)
                    THEN Some(default_value_for_j_type(j_type))
                    ELSE init_value,
     is_final |-> "final" \in flags,
     is_static |-> "static" \in flags,
     is_private |-> "private" \in flags,
     is_exposed |-> "exposed" \in flags]

\* JavaVariable(name, j_type)
JavaVariable(name, j_type) == JavaVariableWith(name, j_type, None, FALSE, {})

Var_is_optional(v) == ~IsNone(v.init_value)
Var_is_readonly(v) == v.is_final
Var_j_name(v) == IF v.name \in _JAVA_KEYWORDS THEN v.name \o "_" ELSE v.name
Var_param_decl(v) == v.j_type \o " " \o Var_j_name(v)
Var_title_name(v) == str_remove(str_title(v.name), "_")

\* str(v): an init_value of '' counts as none
Var_str(v) ==
    IF ~IsNone(v.init_value) /\ TheValue(v.init_value) # ""
    THEN v.j_type \o " " \o Var_j_name(v) \o " = " \o TheValue(v.init_value)
    ELSE v.j_type \o " " \o Var_j_name(v)

Var_declaration(v) ==
    LET s == IF v.is_static THEN " static" ELSE ""
        f == IF v.is_final THEN " final" ELSE ""
        p == IF v.is_exposed THEN "public" ELSE "private"
    IN "  " \o p \o s \o f \o " " \o Var_str(v) \o ";"

Var_getter(v) ==
    LET s == IF v.is_static THEN " static" ELSE ""
    IN "  public" \o s \o " " \o v.j_type \o " get" \o Var_title_name(v)
       \o "() {\n    return this." \o Var_j_name(v) \o ";\n  }"

Var_setter(v) ==
    LET s == IF v.is_static THEN " static" ELSE ""
        n == Var_j_name(v)
    IN "  public" \o s \o " void set" \o Var_title_name(v) \o "(" \o v.j_type
       \o " " \o n \o ") {\n    this." \o n \o " = " \o n \o ";\n  }"

\* interface_declarations() that leaves static fields in
Var_interface_declarations_static(v) ==
    IF ~v.is_private
    THEN Some("  " \o v.j_type \o " get" \o Var_title_name(v) \o "();\n"
              \o (IF ~Var_is_readonly(v)
                  THEN "\n  void set" \o Var_title_name(v) \o "(" \o v.j_type
                       \o " " \o Var_j_name(v) \o ");\n"
                  ELSE ""))
    ELSE None

\* interface_declarations(): None or Some(str)
Var_interface_declarations(v) ==
    IF ~v.is_static /\ ~v.is_private
    THEN Some("  " \o v.j_type \o " get" \o Var_title_name(v) \o "();\n"
              \o (IF ~Var_is_readonly(v)
                  THEN "\n  void set" \o Var_title_name(v) \o "(" \o v.j_type
                       \o " " \o Var_j_name(v) \o ");\n"
                  ELSE ""))
    ELSE None

-----------------------------------------------------------------------------
(* JavaClass: the fields that the methods of JavaMethod read *)

\* JavaClass(name, base_cls): base_cls is None, <<"JavaClass", name>> for
\* a class of `classes`, or <<"str", name>> for a class known by name only;
\* values is the list of a JavaPseudoEnum, None for any other class
JavaClassObj(name, base_cls, constructor) ==
    [name |-> name, base_cls |-> base_cls, constructor |-> constructor,
     fields |-> <<>>, methods |-> <<>>, values |-> None]

IsJavaClass(base_cls) == base_cls # None /\ base_cls[1] = "JavaClass"

Cls_has_base_class(cls) == cls.base_cls # None

\* all_fields with the fields of the base classes first
RECURSIVE Cls_all_fields_base_first(_, _)
Cls_all_fields_base_first(cs, cls) ==
    IF IsJavaClass(cls.base_cls)
    THEN Cls_all_fields_base_first(cs, cs[cls.base_cls[2]]) \o cls.fields
    ELSE cls.fields

RECURSIVE Cls_all_fields(_, _)
Cls_all_fields(cs, cls) ==
    IF IsJavaClass(cls.base_cls)
    THEN cls.fields \o Cls_all_fields(cs, cs[cls.base_cls[2]])
    ELSE cls.fields

Cls_base_fields(cs, cls) ==
    IF IsJavaClass(cls.base_cls) THEN Cls_all_fields(cs, cs[cls.base_cls[2]])
    ELSE <<>>

-----------------------------------------------------------------------------
(* JavaMethod.  cls is <<"JavaClass", name>> for a JavaClass of `classes`   *)
(* and <<"JavaInterface", name>> for a JavaInterface.                      *)

\* JavaMethod(cls, name, return_j_type, args, body, is_static=...,
\* is_public=..., is_override=None); return_j_type is None or Some(str),
\* body is None, Some(list of str) or <<"callable", f>> for the bound
\* method f of the class
JavaMethod(cls, name, return_j_type, args, body, is_static, is_public) ==
    [cls |-> cls,
     name |-> name,
     return_j_type |->
        IF cls = <<"JavaClass", name>> /\ IsNone(return_j_type) THEN name
        ELSE IF IsNone(return_j_type) THEN "void"
        ELSE TheValue(return_j_type),
     args |-> args,
     body |-> body,
     is_static |-> is_static,
     is_public |-> is_public,
     is_override |-> name \in _JAVA_DEFAULT_METHODS]

Method_is_constructor(m) == m.cls = <<"JavaClass", m.name>>

Method_all_args(cs, m) ==
    IF Method_is_constructor(m) /\ Cls_has_base_class(cs[m.name])
    THEN m.args \o Cls_base_fields(cs, cs[m.name])
    ELSE m.args

\* _get_args(n); n is None or Some(int)
Method_get_args(cs, m, n) ==
    LET all_args == Method_all_args(cs, m)
        decls == [k \in 1..Len(all_args) |-> Var_param_decl(all_args[k])]
    IN IF all_args # <<>>
       THEN IF ~IsNone(n) /\ 0 <= TheValue(n) /\ TheValue(n) <= Len(all_args)
            THEN join(", ", SubSeq(decls, 1, TheValue(n)))
            ELSE join(", ", decls)
       ELSE ""

\* _get_valueOf_method() of a JavaPseudoEnum
Cls_get_valueOf_method(cls) ==
    LET values == TheValue(cls.values)
        code == [k \in 1..Len(values) |->
                    "if (s.equals(\"" \o values[k][1] \o "\"))\n      return "
                    \o values[k][1] \o ";"]
                \o <<"throw new IllegalArgumentException(s);">>
    IN "    " \o join("\n    ", code)

Method_get_body(cs, m) ==
    IF Len(m.body) = 1 THEN "    " \o join("\n    ", TheValue(m.body))
    ELSE IF Method_is_constructor(m)
    THEN LET cls == cs[m.name]
             base_fields == Cls_base_fields(cs, cls)
             super_args ==
                join(", ", [k \in 1..Len(base_fields) |-> Var_j_name(base_fields[k])])
             code ==
                (IF Cls_has_base_class(cls)
                 THEN <<"super(" \o super_args \o ");">> ELSE <<>>)
                \o [k \in 1..Len(m.args) |->
                      "this." \o Var_j_name(m.args[k]) \o " = "
                      \o Var_j_name(m.args[k]) \o ";"]
         IN "    " \o join("\n    ", code)
    ELSE IF Len(m.body) = 2 THEN Cls_get_valueOf_method(cs[m.cls[2]])
    ELSE ""

Method_get_head(cs, m) ==
    LET p == IF m.is_public THEN "public " ELSE "private "
    IN IF Method_is_constructor(m)
       THEN p \o m.name \o "(" \o Method_get_args(cs, m, None) \o ")"
       ELSE LET s == IF m.is_static THEN "static " ELSE ""
            IN p \o s \o m.return_j_type \o " " \o m.name \o "("
               \o Method_get_args(cs, m, None) \o ")"

Method_get_iface_head(cs, m, n) ==
    m.return_j_type \o " " \o m.name \o "(" \o Method_get_args(cs, m, Some(n))
    \o ");"

Method_declaration(cs, m) ==
    LET o == IF m.is_override /\ ~Method_is_constructor(m)
             THEN "@Override\n  " ELSE ""
    IN "  " \o o \o Method_get_head(cs, m) \o " {\n" \o Method_get_body(cs, m)
       \o "\n  }"

\* the loop body of get_all_declarations for i: the parameters and the
\* arguments of one shorter form, from all_args[k] on, j optional arguments
\* being kept still
RECURSIVE ShortForm(_, _, _)
ShortForm(all_args, k, j) ==
    IF k > Len(all_args) THEN [params |-> <<>>, args |-> <<>>]
    ELSE LET a == all_args[k]
             j2 == IF Var_is_optional(a) THEN j - 1 ELSE j
             rest == ShortForm(all_args, k + 1, j2)
         IN IF Var_is_optional(a) /\ j2 < 0
            THEN [params |-> rest.params,
                  args |-> <<TheValue(a.init_value)>> \o rest.args]
            ELSE [params |-> <<Var_param_decl(a)>> \o rest.params,
                  args |-> <<Var_j_name(a)>> \o rest.args]

\* get_all_declarations(), as the list decls that it joins
Method_all_decls(cs, m) ==
    LET all_args == Method_all_args(cs, m)
        n_opt == Cardinality({k \in 1..Len(all_args) : Var_is_optional(all_args[k])})
        p == IF m.is_public THEN "public " ELSE "private"
        s == IF m.is_static THEN "static " ELSE ""
        o == IF m.is_override THEN "@Override\n  " ELSE ""
        head == IF Method_is_constructor(m) THEN p \o s \o m.name
                ELSE o \o p \o s \o m.return_j_type \o " " \o m.name
        fwd == IF Method_is_constructor(m) THEN "this"
               ELSE (IF m.return_j_type # "void" THEN "return " ELSE "") \o m.name
    IN IF all_args # <<>> /\ n_opt > 0
       THEN <<Method_declaration(cs, m)>>
            \o [i \in 1..n_opt |->
                  LET f == ShortForm(all_args, 1, i - 1)
                  IN "  " \o head \o "(" \o join(", ", f.params) \o ") {\n    "
                     \o fwd \o "(" \o join(", ", f.args) \o ");\n  }"]
       ELSE <<Method_declaration(cs, m)>>

Method_get_all_declarations(cs, m) == join("\n\n", Method_all_decls(cs, m))

\* interface_declarations(): None or Some(str)
Method_interface_declarations(cs, m) ==
    IF m.is_public /\ ~m.is_static /\ ~Method_is_constructor(m)
    THEN LET n == Len(m.args)
             mandatory_arg_count ==
                Cardinality({k \in 1..n : ~Var_is_optional(m.args[k])})
             decls == [i \in 1..(n - mandatory_arg_count + 1) |->
                          Method_get_iface_head(cs, m, n - i + 1)]
         IN Some("  " \o join("\n  ", decls) \o "\n")
    ELSE None

-----------------------------------------------------------------------------
(* JavaClass, JavaPseudoEnum and JavaInterface *)

\* JavaClass(name, base_cls)
JavaClass(name, base_cls) ==
    JavaClassObj(name, base_cls,
                 JavaMethod(<<"JavaClass", name>>, name, Some(name), <<>>, None,
                            FALSE, TRUE))

\* cls.add(item) for a JavaVariable: the class after it, and the exception
Cls_add_variable(cls, item) ==
    IF \E k \in 1..Len(cls.fields) : cls.fields[k].name = item.name
    THEN [exc |-> "KeyError", cls |-> cls]
    ELSE [exc |-> "",
          cls |-> [cls EXCEPT !.fields = Append(@, item),
                              !.constructor.args = Append(@, item)]]

\* cls.add(item) for a JavaMethod
Cls_add_method(cls, item) == [cls EXCEPT !.methods = Append(@, item)]

\* JavaPseudoEnum.add_value(value, args)
Cls_add_value(cls, value, args) ==
    LET values == TheValue(cls.values)
    IN IF value # "" /\ \E i \in 1..Len(values) : values[i][1] = value
       THEN LET i == CHOOSE i \in 1..Len(values) :
                        /\ values[i][1] = value
                        /\ \A h \in 1..(i - 1) : values[h][1] # value
            IN [cls EXCEPT !.values = Some([values EXCEPT ![i] = <<value, args>>])]
       ELSE [cls EXCEPT !.values = Some(Append(values, <<value, args>>))]

\* JavaPseudoEnum(name, base_cls)
JavaPseudoEnum(name, base_cls) ==
    LET c0 == [JavaClass(name, base_cls) EXCEPT !.values = Some(<<>>)]
        c1 == Cls_add_variable(c0, JavaVariableWith("name", "String", None, FALSE,
                                                    {"final", "private"})).cls
        c2 == Cls_add_method(c1, JavaMethod(<<"JavaClass", name>>, "toString",
                                            Some("String"), <<>>,
                                            Some(<<"return this.name;">>),
                                            FALSE, TRUE))
    IN Cls_add_method(c2, JavaMethod(<<"JavaClass", name>>, "valueOf", Some(name),
                                     <<JavaVariable("s", "String")>>,
                                     <<"callable", "_get_valueOf_method">>,
                                     FALSE, TRUE))

\* _get_values() of a JavaPseudoEnum
Cls_get_values(cls) ==
    LET values == TheValue(cls.values)
    IN join("\n", [k \in 1..Len(values) |->
                     "  public static final " \o cls.name \o " " \o values[k][1]
                     \o " = new " \o cls.name \o "("
                     \o join(", ", <<"\"" \o values[k][1] \o "\"">> \o values[k][2])
                     \o ");"])

\* the lines for the getters and setters of fields[k..]
RECURSIVE AccessorLines(_, _)
AccessorLines(fields, k) ==
    IF k > Len(fields) THEN <<>>
    ELSE LET field == fields[k]
         IN (IF ~field.is_private /\ ~field.is_exposed
             THEN <<Var_getter(field)>>
                  \o (IF ~Var_is_readonly(field) THEN <<Var_setter(field)>>
                      ELSE <<>>)
             ELSE <<>>)
            \o AccessorLines(fields, k + 1)

\* cls.declaration, as the list of lines that it joins
Cls_declaration_lines(cs, cls) ==
    LET base_cls == IF IsJavaClass(cls.base_cls) THEN " extends " \o cls.base_cls[2]
                    ELSE IF cls.base_cls # None THEN " extends " \o cls.base_cls[2]
                    ELSE ""
        value_decls == IF cls.values # None THEN Cls_get_values(cls) ELSE ""
    IN <<"class " \o cls.name \o base_cls \o " {">>
       \o [k \in 1..Len(cls.fields) |-> Var_declaration(cls.fields[k])]
       \o <<"">>
       \o (IF value_decls # "" THEN <<value_decls, "">> ELSE <<>>)
       \o (IF Cls_all_fields(cs, cls) # <<>>
           THEN <<Method_get_all_declarations(cs, cls.constructor), "">>
           ELSE <<>>)
       \o AccessorLines(cls.fields, 1)
       \o [k \in 1..Len(cls.methods) |->
              Method_get_all_declarations(cs, cls.methods[k])]
       \o <<"}">>

Cls_declaration(cs, cls) == join("\n", Cls_declaration_lines(cs, cls))

\* JavaInterface(name)
JavaInterface(name) == [name |-> name, fields |-> <<>>, methods |-> <<>>]

\* iface.add(item) for a JavaVariable and for a JavaMethod
Iface_add_variable(iface, item) == [iface EXCEPT !.fields = Append(@, item)]
Iface_add_method(iface, item) == [iface EXCEPT !.methods = Append(@, item)]

\* iface.add_all(other) for a JavaClass or JavaInterface
Iface_add_all(iface, other) ==
    [iface EXCEPT !.fields = @ \o other.fields, !.methods = @ \o other.methods]

\* the decls of items[k..] that are not None (and not empty)
RECURSIVE SomeDecls(_, _)
SomeDecls(decls, k) ==
    IF k > Len(decls) THEN <<>>
    ELSE (IF ~IsNone(decls[k]) /\ TheValue(decls[k]) # ""
          THEN <<TheValue(decls[k])>> ELSE <<>>)
         \o SomeDecls(decls, k + 1)

\* iface.declaration
Iface_declaration(cs, iface) ==
    join("\n",
         <<"interface " \o iface.name \o " {\n">>
         \o SomeDecls([k \in 1..Len(iface.fields) |->
                          Var_interface_declarations(iface.fields[k])], 1)
         \o SomeDecls([k \in 1..Len(iface.methods) |->
                          Method_interface_declarations(cs, iface.methods[k])], 1)
         \o <<"}">>)

-----------------------------------------------------------------------------
(* Reading Java text: the words and symbols of a text, as a Java compiler   *)
(* separates them.                                                         *)

DigitChars == {"0", "1", "2", "3", "4", "5", "6", "7", "8", "9"}

IsJavaWordChar(c) ==
    IsUpper(c) \/ IsLower(c) \/ c \in DigitChars \/ c \in {"_", "@", "$"}

\* The tokens of s[lo..hi], which begins and ends where tokens begin and
\* end: a word is a longest run of word characters, any other character
\* but white space is a token of its own.  A longer text is cut in two
\* between two tokens.
RECURSIVE JavaTokensIn(_, _, _)
JavaTokensIn(s, lo, hi) ==
    LET Cut(b) == ~(IsJavaWordChar(Char(s, b)) /\ IsJavaWordChar(Char(s, b + 1)))
        mid == (lo + hi) \div 2
    IN IF lo > hi THEN <<>>
       ELSE IF lo = hi
       THEN IF Char(s, lo) \in {" ", "\n", "\t"} THEN <<>> ELSE <<Char(s, lo)>>
       ELSE IF \E b \in mid..(hi - 1) : Cut(b)
       THEN LET b == CHOOSE b \in mid..(hi - 1) : Cut(b)
            IN JavaTokensIn(s, lo, b) \o JavaTokensIn(s, b + 1, hi)
       ELSE IF \E b \in lo..(mid - 1) : Cut(b)
       THEN LET b == CHOOSE b \in lo..(mid - 1) : Cut(b)
            IN JavaTokensIn(s, lo, b) \o JavaTokensIn(s, b + 1, hi)
       ELSE <<SubSeq(s, lo, hi)>>

JavaTokens(s) == JavaTokensIn(s, 1, Len(s))

\* the position of the first token t in toks, 0 when there is none
FirstToken(toks, t) ==
    IF \E k \in 1..Len(toks) : toks[k] = t
    THEN CHOOSE k \in 1..Len(toks) :
            toks[k] = t /\ \A h \in 1..(k - 1) : toks[h] # t
    ELSE 0

\* The members in the tokens toks, in order: a member ends with the brace
\* that closes its body, or with a semicolon outside every body.
JavaMembers(toks) ==
    LET n == Len(toks)
        depth == [k \in 1..n |->
                    Cardinality({h \in 1..(k - 1) : toks[h] = "{"})
                    - Cardinality({h \in 1..(k - 1) : toks[h] = "}"})]
        ends == {k \in 1..n : \/ toks[k] = ";" /\ depth[k] = 0
                              \/ toks[k] = "}" /\ depth[k] = 1}
        EndNo(i) == IF i = 0 THEN 0
                    ELSE CHOOSE k \in ends : Cardinality({h \in ends : h < k}) = i - 1
    IN [i \in 1..Cardinality(ends) |-> SubSeq(toks, EndNo(i - 1) + 1, EndNo(i))]

\* the members of the declarations of methods in text
JavaDecls(text) == JavaMembers(JavaTokens(text))

\* One method declaration read: the tokens before the parameter list, the
\* number of parameters, the tokens of the parameter list and of the body
JavaForm(toks) ==
    LET open == FirstToken(toks, "(")
        close == FirstToken(toks, ")")
        params == SubSeq(toks, open + 1, close - 1)
    IN [head |-> SubSeq(toks, 1, open - 1),
        params |-> params,
        arity |-> IF params = <<>> THEN 0
                  ELSE 1 + Cardinality({k \in 1..Len(params) : params[k] = ","}),
        body |-> SubSeq(toks, close + 1, Len(toks))]

-----------------------------------------------------------------------------
(* A JavaMethod is built for a class K, parameters are added to it, and    *)
(* its declarations are generated.                                         *)

MaxArgs == 3        \* parameters added to a method

\* nothing is tokenized or translated
NoTranslation ==
    /\ source_text = <<>> /\ source = <<>> /\ index = 0 /\ cache = <<>> /\ if_stack = <<>>
    /\ macros = EmptyDict /\ out = <<>> /\ status = "idle"
    /\ type_map = <<>> /\ functions = <<>> /\ unknown_types = {}
    /\ at_type_map = <<>> /\ cache_file = <<>> /\ cache_loaded = "False"
    /\ ret = <<>>
    /\ at_methods = <<>> /\ parser_context = <<>>

\* K without a base class, K with a base class known by name, and K
\* extending the JavaClass B, which has a field
MethodClasses ==
    LET B == Cls_add_variable(JavaClass("B", None), JavaVariable("x", "int")).cls
    IN {[n \in {"B", "K"} |-> IF n = "B" THEN B ELSE JavaClass("K", base)] :
           base \in {None, <<"str", "Base">>, <<"JavaClass", "B">>}}

\* the name of the k-th parameter added
ArgNames == <<"a", "b", "int">>

InitMethod ==
    /\ NoTranslation /\ process = <<>> /\ jvm = <<>>
    /\ classes \in MethodClasses
    /\ \E name \in {"f", "K", "toString"}, return_j_type \in {None, Some("int")},
          body \in {None, Some(<<"work();">>)},
          is_static \in BOOLEAN, is_public \in BOOLEAN :
          /\ name = "K" => ~is_static /\ IsNone(return_j_type)
          /\ method = JavaMethod(<<"JavaClass", "K">>, name, return_j_type, <<>>,
                                 body, is_static, is_public)
    /\ emitted = None

\* method.add(JavaVariable(name, j_type, init_value, is_optional=...))
method_add ==
    /\ Len(method.args) < MaxArgs
    /\ \E j_type \in {"int", "String"}, init_value \in {None, Some("7")},
          is_optional \in BOOLEAN :
          method' = [method EXCEPT !.args =
                        Append(@, JavaVariableWith(ArgNames[Len(method.args) + 1],
                                                   j_type, init_value,
                                                   is_optional, {}))]
    /\ emitted' = None
    /\ UNCHANGED <<tokVars, ttVars, actVars, process, jvm, classes>>

\* method.get_all_declarations()
method_get_all_declarations ==
    /\ emitted' = Some(Method_get_all_declarations(classes, method))
    /\ UNCHANGED <<tokVars, ttVars, actVars, process, jvm, classes, method>>

NextMethod == method_add \/ method_get_all_declarations

SpecMethod == InitMethod /\ [][NextMethod]_vars

\* the words that open a form of m: annotation, visibility, static, the
\* return type unless m is a constructor, the name
OpeningWords(m) ==
    (IF m.is_override /\ ~Method_is_constructor(m) THEN <<"@Override">> ELSE <<>>)
    \o <<IF m.is_public THEN "public" ELSE "private">>
    \o (IF m.is_static THEN <<"static">> ELSE <<>>)
    \o (IF Method_is_constructor(m) THEN <<>> ELSE <<m.return_j_type>>)
    \o <<m.name>>

\* the optional parameters of args are its last k ones
TrailingOptional(args, k) ==
    \A i \in 1..Len(args) : Var_is_optional(args[i]) <=> i > Len(args) - k

\* a call of m with the first j of args and the defaults of the others
Forwarding(m, args, j) ==
    <<"{">>
    \o (IF ~Method_is_constructor(m) /\ m.return_j_type # "void"
        THEN <<"return">> ELSE <<>>)
    \o <<IF Method_is_constructor(m) THEN "this" ELSE m.name, "(">>
    \o JavaTokens(join(", ", [i \in 1..Len(args) |->
                                IF i <= j THEN Var_j_name(args[i])
                                ELSE TheValue(args[i].init_value)]))
    \o <<")", ";", "}">>

\* C12 as claimed: of a method with n parameters, the last k of them
\* optional, get_all_declarations gives k + 1 forms, one of each arity from
\* n - k to n, every one a declaration of the method (visibility, static,
\* return type and name); the form of arity j declares the first j
\* parameters and, when j < n, calls the full form with them and with the
\* defaults of the others, in the order of the parameters.
C12_OneFormPerArity ==
    \A k \in 0..MaxArgs :
       LET args == Method_all_args(classes, method)
           n == Len(args)
           decls == JavaDecls(TheValue(emitted))
           forms == [i \in 1..Len(decls) |-> JavaForm(decls[i])]
       IN (emitted # None /\ k <= n /\ TrailingOptional(args, k)) =>
             /\ Len(forms) = k + 1
             /\ \A j \in (n - k)..n :
                   \E i \in 1..Len(forms) :
                      /\ forms[i].arity = j
                      /\ \A h \in 1..Len(forms) : forms[h].arity = j => h = i
                      /\ forms[i].head = OpeningWords(method)
                      /\ forms[i].params =
                            JavaTokens(join(", ", [a \in 1..j |-> Var_param_decl(args[a])]))
                      /\ j < n => forms[i].body = Forwarding(method, args, j)

-----------------------------------------------------------------------------
(* Classes A, B extends A, C extends B and D, whose base class is known by  *)
(* name only: fields are added to them, and their declarations generated.  *)

MaxFields == 3      \* fields added to the classes, all together

\* the fields added: name and init_value
FieldChoices == {<<"x", None>>, <<"y", Some("0")>>, <<"int", None>>}

InitClass ==
    /\ NoTranslation /\ process = <<>> /\ jvm = <<>>
    /\ classes = [n \in {"A", "B", "C", "D"} |->
                    JavaClass(n, CASE n = "A" -> None
                                   [] n = "B" -> <<"JavaClass", "A">>
                                   [] n = "C" -> <<"JavaClass", "B">>
                                   [] n = "D" -> <<"str", "Base">>)]
    /\ method = None
    /\ emitted = None

\* the fields of all classes
FieldCount ==
    Len(classes.A.fields) + Len(classes.B.fields) + Len(classes.C.fields)
    + Len(classes.D.fields)

\* cls.add_field(name, j_type), and cls.add(JavaVariable(name, j_type,
\* init_value)) for an optional field; a KeyError leaves the class as it is
class_add_field ==
    /\ FieldCount < MaxFields
    /\ \E n \in DOMAIN classes, f \in FieldChoices :
          LET r == Cls_add_variable(classes[n],
                                    JavaVariableWith(f[1], "int", f[2],
                                                     FALSE, {}))
          IN /\ classes' = [classes EXCEPT ![n] = r.cls]
             /\ emitted' = <<n, r.exc>>
    /\ UNCHANGED <<tokVars, ttVars, actVars, process, jvm, method>>

\* cls.declaration
class_declaration ==
    /\ \E n \in DOMAIN classes :
          emitted' = <<n, "declaration", Cls_declaration(classes, classes[n])>>
    /\ UNCHANGED <<tokVars, ttVars, actVars, process, jvm, classes, method>>

NextClass == class_add_field \/ class_declaration

SpecClass == InitClass /\ [][NextClass]_vars

\* the members of the class that text declares
ClassMembers(text) ==
    LET toks == JavaTokens(text)
    IN JavaMembers(SubSeq(toks, FirstToken(toks, "{") + 1, Len(toks) - 1))

\* the constructors among them, read
Constructors(name, text) ==
    LET ms == ClassMembers(text)
    IN {JavaForm(ms[i]) : i \in {i \in 1..Len(ms) :
                                   /\ Len(ms[i]) >= 3
                                   /\ SubSeq(ms[i], 1, 3) = <<"public", name, "(">>}}

\* the names of the parameters that the tokens params declare: every
\* second word of `type name, type name`
ParamNames(params) ==
    [k \in 1..((Len(params) + 1) \div 3) |-> params[3 * k - 1]]

\* the constructor with most parameters
FullConstructor(cons) == CHOOSE c \in cons : \A d \in cons : d.arity <= c.arity

\* the declaration of class n was generated last
Declared(n) == Len(emitted) = 3 /\ emitted[1] = n

\* C13: the class as emitted has a constructor exactly if it has a field,
\* of its own or inherited.  That constructor begins with the call of the
\* constructor of the base class, when there is a base class, with the
\* inherited fields as arguments, which is the parameter list of the
\* constructor that the base class is emitted with; then it assigns the
\* fields of the class itself, in the order of their declaration.
C13_ConstructorIffFields ==
    \A n \in DOMAIN classes :
       Declared(n) =>
          LET cls == classes[n]
              cons == Constructors(n, emitted[3])
              inherited == Cls_base_fields(classes, cls)
              base_cons ==
                 IF IsJavaClass(cls.base_cls)
                 THEN Constructors(cls.base_cls[2],
                                   Cls_declaration(classes, classes[cls.base_cls[2]]))
                 ELSE {}
              base_params ==
                 IF base_cons # {} THEN ParamNames(FullConstructor(base_cons).params)
                 ELSE <<>>
              super_call ==
                 IF cls.base_cls = None THEN <<>>
                 ELSE <<"super", "(">>
                      \o JavaTokens(join(", ", [k \in 1..Len(inherited) |->
                                                  Var_j_name(inherited[k])]))
                      \o <<")", ";">>
              assignments(k) ==
                 <<"this", ".", Var_j_name(cls.fields[k]), "=",
                   Var_j_name(cls.fields[k]), ";">>
              RECURSIVE all_assignments(_)
              all_assignments(k) ==
                 IF k > Len(cls.fields) THEN <<>>
                 ELSE assignments(k) \o all_assignments(k + 1)
          IN /\ cons # {} <=> (Len(cls.fields) + Len(inherited) > 0)
             /\ cons # {} =>
                   /\ FullConstructor(cons).body =
                         <<"{">> \o super_call \o all_assignments(1) \o <<"}">>
                   /\ base_params = [k \in 1..Len(inherited) |->
                                        Var_j_name(inherited[k])]

\* C has been emitted with the field `int` of its own, y of B and x of A
C13_Witness ==
    /\ Declared("C")
    /\ Len(classes.A.fields) = 1 /\ classes.A.fields[1].name = "x"
    /\ Len(classes.B.fields) = 1 /\ classes.B.fields[1].name = "y"
    /\ Len(classes.C.fields) = 1 /\ classes.C.fields[1].name = "int"
    /\ FullConstructor(Constructors("C", emitted[3])).body =
          <<"{", "super", "(", "y", ",", "x", ")", ";",
            "this", ".", "int_", "=", "int_", ";", "}">>

-----------------------------------------------------------------------------
(* A JavaInterface I: fields and methods, of I itself and of the class K,  *)
(* are added to it, and its declaration is generated.                      *)

MaxMembers == 3     \* fields and methods added to the interface

\* the name of the k-th field and of the k-th method added
IfaceFieldNames == <<"x", "int", "my_val">>
IfaceMethodNames == <<"f", "g", "h">>

\* the parameter lists of the methods added
IfaceArgChoices ==
    {<<>>,
     <<JavaVariable("a", "int")>>,
     <<JavaVariable("a", "int"), JavaVariableWith("b", "String", None, TRUE, {})>>}

InitIface ==
    /\ NoTranslation /\ process = <<>> /\ jvm = <<>>
    /\ classes = [n \in {"I", "K"} |->
                    IF n = "I" THEN JavaInterface("I") ELSE JavaClass("K", None)]
    /\ method = None
    /\ emitted = None

IfaceMemberCount == Len(classes.I.fields) + Len(classes.I.methods)

\* iface.add(JavaVariable(name, j_type, is_final=..., is_static=...,
\* is_private=...))
iface_add_field ==
    /\ IfaceMemberCount < MaxMembers
    /\ \E j_type \in {"int", "String"},
          flags \in SUBSET {"final", "static", "private"} :
          classes' = [classes EXCEPT !.I =
                         Iface_add_variable(@,
                            JavaVariableWith(IfaceFieldNames[Len(classes.I.fields) + 1],
                                             j_type, None, FALSE, flags))]
    /\ emitted' = None
    /\ UNCHANGED <<tokVars, ttVars, actVars, process, jvm, method>>

\* iface.add(JavaMethod(cls, name, return_j_type, args, is_static=...,
\* is_public=...)): a method of K, which may be its constructor
iface_add_method ==
    /\ IfaceMemberCount < MaxMembers
    /\ \E name \in {IfaceMethodNames[Len(classes.I.methods) + 1], "K"},
          return_j_type \in {None, Some("int")}, args \in IfaceArgChoices,
          is_static \in BOOLEAN, is_public \in BOOLEAN :
          /\ name = "K" => IsNone(return_j_type)
          /\ classes' = [classes EXCEPT !.I =
                            Iface_add_method(@,
                               JavaMethod(<<"JavaClass", "K">>, name, return_j_type,
                                          args, None, is_static, is_public))]
    /\ emitted' = None
    /\ UNCHANGED <<tokVars, ttVars, actVars, process, jvm, method>>

\* iface.declaration
iface_declaration ==
    /\ emitted' = Some(Iface_declaration(classes, classes.I))
    /\ UNCHANGED <<tokVars, ttVars, actVars, process, jvm, classes, method>>

NextIface == iface_add_field \/ iface_add_method \/ iface_declaration

SpecIface == InitIface /\ [][NextIface]_vars

\* the getter and the setter of the field v, as they are read
GetterOf(v) == <<v.j_type, "get" \o Var_title_name(v), "(", ")", ";">>
SetterOf(v) ==
    <<"void", "set" \o Var_title_name(v), "(", v.j_type, Var_j_name(v), ")", ";">>

\* the member toks is a signature of the method m: its return type and
\* name, and the first parameters of m, all the mandatory ones at least
IsSignatureOf(toks, m) ==
    LET form == JavaForm(toks)
    IN /\ form.head = <<m.return_j_type, m.name>>
       /\ form.body = <<";">>
       /\ \E j \in 0..Len(m.args) :
             /\ \A i \in (j + 1)..Len(m.args) : Var_is_optional(m.args[i])
             /\ form.params =
                   JavaTokens(join(", ", [a \in 1..j |-> Var_param_decl(m.args[a])]))

\* the signature of m with all its parameters
FullSignatureOf(m) ==
    <<m.return_j_type, m.name, "(">>
    \o JavaTokens(join(", ", [a \in 1..Len(m.args) |-> Var_param_decl(m.args[a])]))
    \o <<")", ";">>

\* C14: the interface declares a getter for exactly the added fields that
\* are neither private nor static, a setter for exactly those of them that
\* are not final, and a signature for exactly the added methods that are
\* public, not static and not constructors; it declares nothing else.
C14_InterfaceMembers ==
    emitted # None =>
       LET ms == ClassMembers(TheValue(emitted))
           members == {ms[i] : i \in 1..Len(ms)}
           fields == {classes.I.fields[k] : k \in 1..Len(classes.I.fields)}
           methods == {classes.I.methods[k] : k \in 1..Len(classes.I.methods)}
           Shown(v) == ~v.is_private /\ ~v.is_static
           Signed(m) == m.is_public /\ ~m.is_static /\ ~Method_is_constructor(m)
       IN /\ \A v \in fields :
               /\ GetterOf(v) \in members <=> Shown(v)
               /\ SetterOf(v) \in members <=> Shown(v) /\ ~v.is_final
          /\ \A m \in methods :
               /\ Signed(m) => FullSignatureOf(m) \in members
               /\ (\E t \in members : t[2] = m.name) => Signed(m)
          /\ \A t \in members :
               \/ \E v \in fields : Shown(v) /\ t = GetterOf(v)
               \/ \E v \in fields : Shown(v) /\ ~v.is_final /\ t = SetterOf(v)
               \/ \E m \in methods : Signed(m) /\ IsSignatureOf(t, m)

\* the interface has been emitted with a field that has a getter and a
\* setter, a private field, and a public method with an optional parameter
C14_Witness ==
    /\ emitted # None
    /\ Len(classes.I.fields) = 2 /\ Len(classes.I.methods) = 1
    /\ ~classes.I.fields[1].is_private /\ ~classes.I.fields[1].is_static
    /\ ~classes.I.fields[1].is_final
    /\ classes.I.fields[2].is_private
    /\ classes.I.methods[1].is_public /\ ~classes.I.methods[1].is_static
    /\ classes.I.methods[1].name = "f" /\ Len(classes.I.methods[1].args) = 2
    /\ Len(ClassMembers(TheValue(emitted))) = 4

-----------------------------------------------------------------------------
(* JavaMemoizedMethod *)

\* JavaMemoizedMethod(cls, name, return_j_type, args, body, hash_arg=...,
\* hash_j_type=...); hash_arg and hash_j_type are None or Some(str)
JavaMemoizedMethod(cls, name, return_j_type, args, body, hash_arg, hash_j_type) ==
    [f \in DOMAIN JavaMethod(cls, name, Some(return_j_type), args, body, FALSE, TRUE)
           \cup {"hash_arg", "hash_j_type"} |->
        CASE f = "hash_arg" -> hash_arg
          [] f = "hash_j_type" -> hash_j_type
          [] OTHER -> JavaMethod(cls, name, Some(return_j_type), args, body,
                                 FALSE, TRUE)[f]]

\* _JAVA_PRIMITIVES.get(j_type, j_type)
MemoRetType(j_type) ==
    IF DHas(_JAVA_PRIMITIVES, j_type) THEN DGet(_JAVA_PRIMITIVES, j_type)
    ELSE j_type

\* s.strip() of a str
RECURSIVE str_strip(_)
str_strip(s) ==
    IF s = "" THEN ""
    ELSE IF Head(s) \in {" ", "\n", "\t"} THEN str_strip(Tail(s))
    ELSE IF Char(s, Len(s)) \in {" ", "\n", "\t"}
    THEN str_strip(SubSeq(s, 1, Len(s) - 1))
    ELSE s

\* an hash_arg that is given and not ''
HasHashArg(m) == ~IsNone(m.hash_arg) /\ TheValue(m.hash_arg) # ""

Memo_get_hash_arg_code(m) ==
    IF HasHashArg(m) /\ Contains(TheValue(m.hash_arg), "=")
    THEN (IF IsNone(m.hash_j_type) THEN "None" ELSE TheValue(m.hash_j_type))
         \o " " \o TheValue(m.hash_arg) \o ";"
    ELSE ""

Memo_get_head_private(cs, m) ==
    LET s == IF m.is_static THEN "static " ELSE ""
    IN "private " \o s \o m.return_j_type \o " _" \o m.name \o "("
       \o Method_get_args(cs, m, None) \o ")"

\* get_memoization_body(): [exc, code]
Memo_get_memoization_body(m) ==
    LET args == join(", ", [k \in 1..Len(m.args) |-> m.args[k].name])
        given == TheValue(m.hash_arg)
        hash_arg == IF HasHashArg(m)
                    THEN IF Contains(given, "=")
                         THEN str_strip(Slice(given, 0, Find(given, "=", 0)))
                         ELSE given
                    ELSE m.args[1].name
        code0 == Memo_get_hash_arg_code(m)
        get_arg == IF code0 # "" THEN code0 \o "\n    " ELSE ""
        ret_type == MemoRetType(m.return_j_type)
        code == "    " \o get_arg \o "Memo<" \o ret_type \o "> info = " \o m.name
                \o "_cache.get(" \o hash_arg \o ");\n"
                \o "    if (info != null) {\n      return info.item;\n    }\n"
                \o "    " \o m.return_j_type \o " result = _" \o m.name \o "("
                \o args \o ");\n"
    IN IF ~HasHashArg(m) /\ m.args = <<>>
       THEN [exc |-> "ValueError", code |-> ""]
       ELSE [exc |-> "",
             code |-> IF ret_type # m.return_j_type
                      THEN code \o "    " \o m.name \o "_cache.put(" \o hash_arg
                           \o ", new Memo<>(result));\n    return result;"
                      ELSE code \o "    if (result != null) {\n      " \o m.name
                           \o "_cache.put(" \o hash_arg
                           \o ", new Memo<>(result));\n    }\n    return result;"]

\* declaration: [exc, code]
Memo_declaration(cs, m) ==
    LET s == IF m.is_static THEN "static " ELSE ""
        o == IF m.is_override /\ ~Method_is_constructor(m)
             THEN "@Override\n  " ELSE ""
        hash_j_type == IF IsNone(m.hash_j_type) /\ m.args # <<>>
                       THEN m.args[1].j_type
                       ELSE IF IsNone(m.hash_j_type) THEN "None"
                       ELSE TheValue(m.hash_j_type)
        ret_type == MemoRetType(m.return_j_type)
        body == Memo_get_memoization_body(m)
    IN IF body.exc # "" THEN body
       ELSE [exc |-> "",
             code |-> "\n  private " \o s \o "final Map<" \o hash_j_type \o ", Memo<"
                      \o ret_type \o ">> " \o m.name \o "_cache = new HashMap<>();\n"
                      \o "  " \o o \o Method_get_head(cs, m) \o " {\n" \o body.code
                      \o "\n  }\n"
                      \o "  " \o Memo_get_head_private(cs, m) \o " {\n"
                      \o Method_get_body(cs, m) \o "\n  }"]

-----------------------------------------------------------------------------
(* The memoized method f of a class K is declared, and the declaration is   *)
(* compiled and called: the public method is read from the emitted text,   *)
(* the private computation behind it returns any value of its type.        *)

MaxCalls == 3       \* calls of the emitted method

\* the primitive types of Java, which are no type arguments and are not
\* compared with null
JavaPrimitiveTypes ==
    {"boolean", "byte", "char", "short", "int", "long", "float", "double"}

MemoReturnTypes == JavaPrimitiveTypes \cup {"String"}

\* the keys of the calls, and what the computation may return
MemoKeys == {"k1", "k2"}
MemoResults(j_type) ==
    IF j_type \in JavaPrimitiveTypes THEN {"v1", "v2"} ELSE {"null", "o1", "o2"}

\* f(int a, String b) memoized by b, as hash_arg `b` or `k = b` of
\* hash_j_type String says, and f(String b, int a) memoized by its first
\* parameter
InitMemo ==
    /\ NoTranslation /\ process = <<>>
    /\ classes = ("K" :> JavaClass("K", None))
    /\ \E return_j_type \in MemoReturnTypes,
          hash \in {<<Some("b"), Some("String"), 1>>,
                    <<Some("k = b"), Some("String"), 1>>, <<None, None, 2>>} :
          method = JavaMemoizedMethod(
                      <<"JavaClass", "K">>, "f", return_j_type,
                      IF hash[3] = 1
                      THEN <<JavaVariable("a", "int"), JavaVariable("b", "String")>>
                      ELSE <<JavaVariable("b", "String"), JavaVariable("a", "int")>>,
                      Some(<<"return compute(a, b);">>), hash[1], hash[2])
    /\ emitted = None
    /\ jvm = <<>>

\* method.declaration, and a new object of K with it
memo_declaration ==
    /\ emitted = None
    /\ emitted' = Some(Memo_declaration(classes, method).code)
    /\ jvm' = [cache |-> <<>>, calls |-> 0, last |-> None]
    /\ UNCHANGED <<tokVars, ttVars, actVars, process, classes, method>>

\* The public method `name` in the Java text code, as javac and the JVM
\* take it: the type argument of its Memo, the key it looks up, whether it
\* returns what it finds, the type of its result, whether it stores the
\* result and whether it does so only if the result is not null.  It is
\* rejected when a primitive type is a type argument or is compared with
\* null.
MemoProgram(code, name) ==
    LET ms == JavaMembers(JavaTokens(code))
        pub == CHOOSE i \in 1..Len(ms) : ms[i][1] = "public"
        body == JavaForm(ms[pub]).body
        c == name \o "_cache"
        at_info == FirstToken(body, "info")
        at_get == FirstToken(body, "get")
        at_result == FirstToken(body, "result")
        key == body[at_get + 2]
        put == <<c, ".", "put", "(", key, ",", "new", "Memo", "<", ">", "(",
                 "result", ")", ")", ";">>
    IN [memo_type |-> body[at_info - 2],
        key |-> key,
        returns_found |->
           Contains(body, <<"if", "(", "info", "!", "=", "null", ")", "{",
                            "return", "info", ".", "item", ";", "}">>),
        result_type |-> body[at_result - 1],
        stores |-> Contains(body, put),
        if_not_null |->
           Contains(body, <<"if", "(", "result", "!", "=", "null", ")", "{">> \o put
                          \o <<"}">>),
        map_types |-> JavaTokens(SubSeq(code, 1, Find(code, "_cache", 0)))]

Compiles(prog) ==
    /\ prog.memo_type \notin JavaPrimitiveTypes
    /\ ~(prog.if_not_null /\ prog.result_type \in JavaPrimitiveTypes)
    /\ \A k \in 1..Len(prog.map_types) : prog.map_types[k] \notin JavaPrimitiveTypes

\* a call f(a, b) with b = key on the object, the computation _f returning
\* result if it is invoked; a text that javac rejects can not be called
memo_call ==
    /\ emitted # None
    /\ jvm.calls < MaxCalls
    /\ \E key \in MemoKeys, result \in MemoResults(method.return_j_type) :
          LET prog == MemoProgram(TheValue(emitted), method.name)
              found == key \in DOMAIN jvm.cache
              hit == found /\ prog.returns_found
              store == ~hit /\ prog.stores /\ (prog.if_not_null => result # "null")
              call == [key |-> key, found |-> found, cache |-> jvm.cache,
                       calls |-> jvm.calls]
          IN IF ~Compiles(prog)
             THEN jvm' = [jvm EXCEPT !.last = Some(call @@ [outcome |-> "rejected",
                                                           value |-> ""])]
             ELSE jvm' = [cache |-> IF store THEN Put(jvm.cache, key, result)
                                    ELSE jvm.cache,
                          calls |-> IF hit THEN jvm.calls ELSE jvm.calls + 1,
                          last |-> Some(call @@
                                        [outcome |-> "returned",
                                         value |-> IF hit THEN jvm.cache[key]
                                                   ELSE result])]
    /\ UNCHANGED <<tokVars, ttVars, actVars, process, classes, method, emitted>>

NextMemo == memo_declaration \/ memo_call

SpecMemo == InitMemo /\ [][NextMemo]_vars

\* the last call, and what it left
LastCall == TheValue(jvm.last)

\* C15 as claimed: a call whose key is in the cache returns the cached
\* value and does not invoke the computation; a call whose key is absent
\* invokes it exactly once and returns its result, which is then in the
\* cache under the key if the return type is one of boolean, byte, char,
\* short, int, long, float, double or if the result is not null, and is
\* absent from the cache otherwise.
C15_MemoizedCall ==
    (emitted # None /\ jvm.last # None) =>
       /\ LastCall.found =>
             /\ LastCall.outcome = "returned"
             /\ LastCall.value = LastCall.cache[LastCall.key]
             /\ jvm.calls = LastCall.calls
             /\ jvm.cache = LastCall.cache
       /\ ~LastCall.found =>
             /\ LastCall.outcome = "returned"
             /\ jvm.calls = LastCall.calls + 1
             /\ IF \/ method.return_j_type \in
                        {"boolean", "byte", "char", "short", "int", "long",
                         "float", "double"}
                   \/ LastCall.value # "null"
                THEN jvm.cache = Put(LastCall.cache, LastCall.key, LastCall.value)
                ELSE jvm.cache = LastCall.cache

-----------------------------------------------------------------------------
(* Type declarations of the C sources: Parser.parse_decl for a typedef,    *)
(* and the Java classes that ActionTranslator.__init__ writes for them.    *)

TypeDecl(type, name) == <<"TypeDecl", type, name>>

\* Parser.parse_decl() of a typedef: the node and Parser.types after it
parse_typedef(tokens, types, i) ==
    LET Named(t) ==
            LET Decl(n) == POk(TypeDecl(t.ast, n.ast), skip(tokens, n.i, "SEMICOLON"))
            IN PThen(next_name(tokens, t.i), Decl)
    IN PThen(parse_type(tokens, types, i + 1), Named)

\* the characters of the str s, and the str of the characters cs
Chars(s) == [k \in 1..Len(s) |-> Char(s, k)]

\* JavaGeneratorContext: the comment that heads a file, and the package
java_autogen_comment == "// Generated automatically at 01 Jan 2024 00:00.\n"
ast_package == "ast"

\* generate_body() that assigns no object to the last field
Enum_generate_body_short(name, fields) ==
    LET self_name == "_" \o name
        code == [k \in 1..Len(fields) |->
                    "  public static final " \o self_name \o " " \o fields[k] \o ";"]
                \o <<"\n  static {">>
                \o [k \in 1..(Len(fields) - 1) |->
                      "    " \o fields[k] \o " = new " \o self_name \o "();"]
                \o <<"  }">>
    IN join("\n", code)

\* JavaEnumWriter(raw_name, name, context) with its fields: generate_body()
Enum_generate_body(name, fields) ==
    LET self_name == "_" \o name
        code == [k \in 1..Len(fields) |->
                    "  public static final " \o self_name \o " " \o fields[k] \o ";"]
                \o <<"\n  static {">>
                \o [k \in 1..Len(fields) |->
                      "    " \o fields[k] \o " = new " \o self_name \o "();"]
                \o <<"  }">>
    IN join("\n", code)

\* JavaEnumWriter.write_to_file(): the text of the file
Enum_write_to_file(name, fields) ==
    java_autogen_comment \o "package " \o ast_package \o ";\n\n"
    \o "public final class _" \o name \o " extends AST {\n"
    \o Enum_generate_body(name, fields) \o "\n}\n"

\* the loop of create_enum_type from fields[k] on: translator.type_map
RECURSIVE enum_type_map(_, _, _, _)
enum_type_map(tm, name, fields, k) ==
    IF k > Len(fields) THEN tm
    ELSE enum_type_map(DPut(tm, Chars(fields[k]),
                            Chars("_" \o name \o "." \o fields[k])),
                       name, fields, k + 1)

\* create_enum_type(name, fields, translator)
create_enum_type(name, fields, tm) ==
    [type_map |-> enum_type_map(tm, name, fields, 1),
     file |-> Enum_write_to_file(name, fields)]

-----------------------------------------------------------------------------
(* An `typedef enum {...} T;` is read and its class written; the sum type  *)
(* E of an ASDL module is made a JavaPseudoEnum; a name is looked up in    *)
(* the class emitted last.                                                 *)

MaxEnum == 3        \* enumerators of an enum, values of a pseudo-enum

Enumerators == {"A", "B", "C"}

\* the sequences of distinct enumerators
EnumNames ==
    {s \in SeqsUpTo(Enumerators, MaxEnum) :
        \A i, j \in 1..Len(s) : s[i] = s[j] => i = j}

\* the tokens of `typedef enum { names } T;`
RECURSIVE CommaList(_)
CommaList(names) ==
    IF names = <<>> THEN <<>>
    ELSE IF Len(names) = 1 THEN names
    ELSE <<names[1], ",">> \o CommaList(Tail(names))

EnumTypedef(names, name) ==
    <<"typedef", "enum", "{">> \o CommaList(names) \o <<"}", name, ";">>

InitEnum ==
    /\ source_text = <<>> /\ source = <<>> /\ index = 0 /\ cache = <<>> /\ if_stack = <<>>
    /\ macros = EmptyDict /\ out = <<>> /\ status = "idle"
    /\ type_map = <<>> /\ functions = <<>> /\ unknown_types = {}
    /\ at_type_map = INITIAL_TYPE_MAP
    /\ cache_file = <<>> /\ cache_loaded = "False" /\ ret = <<>>
    /\ at_methods = <<>> /\ parser_context = <<>>
    /\ process = <<>>
    /\ classes = ("E" :> JavaPseudoEnum("E", None))
    /\ method = None
    /\ emitted = None
    /\ jvm = None

\* ActionTranslator.__init__, lines 324-327: an item of pegen.h that is the
\* TypeDecl of an EnumType
translator_enum_typedef ==
    /\ emitted = None
    /\ \E names \in EnumNames :
          LET Created(item, r) ==
                /\ at_type_map' = r.type_map
                /\ emitted' = <<"typedef", item[2][2], r.file>>
              Item(item) ==
                /\ item[1] = "TypeDecl" /\ item[2][1] = "EnumType"
                /\ Created(item, create_enum_type(item[3], item[2][2], at_type_map))
              Tokens(t) == Item(parse_typedef(t.out, ParserTypes, 0).ast)
          IN Tokens(TokenizeAll(RawTokens(EnumTypedef(names, "T")), EmptyDict))
    /\ jvm' = None
    /\ UNCHANGED <<tokVars, type_map, functions, unknown_types, cache_file,
                   cache_loaded, ret, actVars, process, classes, method>>

\* sum_as_enum: cls.add(field.name)
pseudo_enum_add ==
    /\ emitted = None
    /\ Len(TheValue(classes.E.values)) < MaxEnum
    /\ \E value \in Enumerators :
          classes' = [classes EXCEPT !.E = Cls_add_value(@, value, <<>>)]
    /\ UNCHANGED <<tokVars, ttVars, actVars, process, method, emitted, jvm>>

\* cls.declaration of the JavaPseudoEnum
pseudo_enum_declaration ==
    /\ emitted = None
    /\ emitted' = <<"pseudo",
                    [k \in 1..Len(TheValue(classes.E.values)) |->
                        TheValue(classes.E.values)[k][1]],
                    Cls_declaration(classes, classes.E)>>
    /\ jvm' = None
    /\ UNCHANGED <<tokVars, ttVars, actVars, process, classes, method>>

\* The class of the Java text: its name, the names of its public static
\* fields of its own type that are assigned a new object of it once, in
\* the declaration or in a static block, in the order of their
\* declarations, and its method that takes a String and returns an object
\* of the class, if it has one
JavaEnumClass(text) ==
    LET toks == JavaTokens(text)
        name == toks[FirstToken(toks, "class") + 1]
        ms == ClassMembers(text)
        IsField(m) == /\ Len(m) >= 6
                      /\ SubSeq(m, 1, 4) = <<"public", "static", "final", name>>
                      /\ m[6] \in {";", "="}
        Here(m) == m[6] = "=" /\ SubSeq(m, 7, 9) = <<"new", name, "(">>
        blocks == {i \in 1..Len(ms) : SubSeq(ms[i], 1, 2) = <<"static", "{">>}
        Later(n) == {<<i, k>> \in blocks \X (1..60) :
                        /\ k + 5 <= Len(ms[i])
                        /\ SubSeq(ms[i], k, k + 5) = <<n, "=", "new", name, "(", ")">>}
        Once(m) == IF Here(m) THEN Later(m[5]) = {}
                   ELSE Cardinality(Later(m[5])) = 1
        fields == {i \in 1..Len(ms) : IsField(ms[i]) /\ Once(ms[i])}
        Nth(k) == CHOOSE i \in fields : Cardinality({h \in fields : h < i}) = k - 1
        lookups == {i \in 1..Len(ms) :
                       LET form == JavaForm(ms[i])
                       IN /\ Len(form.head) >= 2
                          /\ form.head[Len(form.head) - 1] = name
                          /\ Len(form.params) = 2 /\ form.params[1] = "String"}
    IN [name |-> name,
        singletons |-> [k \in 1..Cardinality(fields) |-> ms[Nth(k)][5]],
        lookup |-> IF lookups = {} THEN None
                   ELSE Some(JavaForm(ms[CHOOSE i \in lookups : TRUE]))]

\* the body of a lookup method run from its k-th token on with s: the
\* field returned or the exception thrown
RECURSIVE RunLookup(_, _, _, _)
RunLookup(body, arg, k, s) ==
    IF /\ k + 13 <= Len(body)
       /\ SubSeq(body, k, k + 6) = <<"if", "(", arg, ".", "equals", "(", "\"">>
       /\ SubSeq(body, k + 8, k + 11) = <<"\"", ")", ")", "return">>
       /\ body[k + 13] = ";"
    THEN IF body[k + 7] = s THEN <<"returned", body[k + 12]>>
         ELSE RunLookup(body, arg, k + 14, s)
    ELSE IF /\ k + 6 <= Len(body)
            /\ SubSeq(body, k, k + 1) = <<"throw", "new">>
            /\ SubSeq(body, k + 3, k + 6) = <<"(", arg, ")", ";">>
    THEN <<"raised", body[k + 2]>>
    ELSE <<"undefined", "">>

\* the lookup of the name s in the class emitted
java_lookup ==
    /\ emitted # None
    /\ \E s \in Enumerators \cup {"Z"} :
          LET Called(cls) ==
                jvm' = [name |-> s,
                        outcome |->
                           IF IsNone(cls.lookup) THEN <<"no lookup", "">>
                           ELSE RunLookup(TheValue(cls.lookup).body,
                                          TheValue(cls.lookup).params[2], 2, s)]
          IN Called(JavaEnumClass(emitted[3]))
    /\ UNCHANGED <<tokVars, ttVars, actVars, process, classes, method, emitted>>

NextEnum ==
    \/ translator_enum_typedef
    \/ pseudo_enum_add
    \/ pseudo_enum_declaration
    \/ java_lookup

SpecEnum == InitEnum /\ [][NextEnum]_vars

\* the names of the sequence names
NamesIn(names) == {names[k] : k \in 1..Len(names)}

\* what a lookup that returns the singleton of a declared name and raises
\* for any other name gives for the name looked up last
LooksUp(names) ==
    IF jvm.name \in NamesIn(names) THEN jvm.outcome = <<"returned", jvm.name>>
    ELSE jvm.outcome[1] = "raised"

\* C16 as claimed: the class generated for an enum typedef with n names has
\* exactly n public static singleton fields, one per enumerator in the
\* order of the declaration, and a name lookup, which returns the
\* singleton of a declared name and raises for any other name.
C16_EnumWithLookup ==
    (emitted # None /\ emitted[1] = "typedef") =>
       /\ JavaEnumClass(emitted[3]).singletons = emitted[2]
       /\ ~IsNone(JavaEnumClass(emitted[3]).lookup)
       /\ jvm # None => LooksUp(emitted[2])

\* C16, amended: the class _T generated for an enum typedef T with n names
\* has exactly n public static singleton fields, one per enumerator in the
\* order of the declaration, and each enumerator is registered in the type
\* map as _T.name; the class has no name lookup.  The class generated for
\* a JavaPseudoEnum has one public static singleton field per value in the
\* order of the values, and the lookup valueOf, which returns the
\* singleton of a value and raises IllegalArgumentException for any other
\* name.
C16_EnumSingletons ==
    emitted # None =>
       LET cls == JavaEnumClass(emitted[3])
           names == emitted[2]
       IN /\ cls.singletons = names
          /\ emitted[1] = "typedef" =>
                /\ cls.name = "_T"
                /\ \A k \in 1..Len(names) :
                      /\ DHas(at_type_map, Chars(names[k]))
                      /\ DGet(at_type_map, Chars(names[k])) = Chars("_T." \o names[k])
                /\ IsNone(cls.lookup)
                /\ jvm # None => jvm.outcome[1] = "no lookup"
          /\ emitted[1] = "pseudo" =>
                /\ ~IsNone(cls.lookup)
                /\ Last(TheValue(cls.lookup).head) = "valueOf"
                /\ jvm # None =>
                      IF jvm.name \in NamesIn(names)
                      THEN jvm.outcome = <<"returned", jvm.name>>
                      ELSE jvm.outcome = <<"raised", "IllegalArgumentException">>

\* the class of an enum typedef with three names has been emitted, and a
\* name looked up in it
C16_Witness ==
    /\ emitted # None /\ emitted[1] = "typedef" /\ emitted[2] = <<"B", "A", "C">>
    /\ jvm # None /\ jvm.name = "A"

-----------------------------------------------------------------------------
(* create_struct_pair: the class written for a struct typedef *)

\* str(type) of a BaseType, a ConstType or a PointerType
RECURSIVE CTypeStr(_)
CTypeStr(type) ==
    CASE type[1] = "BaseType" -> type[2]
      [] type[1] = "ConstType" -> "const " \o CTypeStr(type[2])
      [] type[1] = "PointerType" -> CTypeStr(type[2]) \o "*"

\* get_type(type) of create_struct_pair
struct_get_type(tm, c_type) ==
    LET type0 == CTypeStr(c_type)
        is_seq == EndsWith(type0, "_seq*")
        type1 == IF is_seq THEN SubSeq(type0, 1, Len(type0) - 5) ELSE type0
        type2 == IF DHas(tm, Chars(type1)) THEN Join(DGet(tm, Chars(type1)))
                 ELSE IF EndsWith(type1, "_ty")
                 THEN str_remove(str_title(SubSeq(type1, 1, Len(type1) - 3)), "_")
                 ELSE type1
    IN IF is_seq THEN type2 \o "[]" ELSE type2

\* create_struct_pair(name, fields, translator): the text of the file
create_struct_pair(name, c_fields, tm) ==
    LET fields == [k \in 1..Len(c_fields) |->
                      <<struct_get_type(tm, c_fields[k][2]), c_fields[k][3][1][1]>>]
        is_pair == Len(fields) = 2 /\ EndsWith(name, "Pair")
        t == IF is_pair
             THEN " extends ASTPair<"
                  \o join(", ", [k \in 1..Len(fields) |-> fields[k][1]]) \o ">"
             ELSE " extends AST"
        a == join(", ", [k \in 1..Len(fields) |-> fields[k][1] \o " " \o fields[k][2]])
        c == join("\n    ", [k \in 1..Len(fields) |->
                                "this." \o fields[k][2] \o " = " \o fields[k][2] \o ";"])
        Getter(f_type, f_name, n) ==
            "  public " \o f_type \o " get" \o n \o "() {\n    return this." \o f_name
            \o ";\n  }\n"
    IN java_autogen_comment \o "package " \o ast_package \o ";\n\n"
       \o "public class " \o name \o t \o " {\n"
       \o join("", [k \in 1..Len(fields) |->
                      "  private final " \o fields[k][1] \o " " \o fields[k][2] \o ";\n"])
       \o "\n  public " \o name \o " (" \o a \o ") {\n    " \o c \o "\n  }\n"
       \o join("", [k \in 1..Len(fields) |->
                      "\n" \o Getter(fields[k][1], fields[k][2],
                                     str_remove(str_title(fields[k][2]), "_"))])
       \o (IF is_pair
           THEN join("", [k \in 1..2 |->
                            "\n  @Override\n"
                            \o Getter(fields[k][1], fields[k][2],
                                      <<"First", "Second">>[k])])
           ELSE "")
       \o "}\n"

-----------------------------------------------------------------------------
(* A `typedef struct {...} Name;` is read and its class written; an        *)
(* accessor of the class is called.                                        *)

MaxStructDecls == 3     \* declarations in the body of a struct

\* the declarations of fields
StructDecls ==
    {<<"int", "x", ";">>, <<"expr_ty", "key", ";">>, <<"asdl_seq", "*", "a", ";">>,
     <<"int", "y", ",", "z", ";">>}

\* the bodies: sequences of different declarations
StructBodies ==
    {s \in SeqsUpTo(StructDecls, MaxStructDecls) :
        \A i, j \in 1..Len(s) : s[i] = s[j] => i = j}

StructTypedef(body, name) ==
    <<"typedef", "struct", "{">> \o Flatten(body) \o <<"}", name, ";">>

\* the names of the fields that the declarations c_fields declare, in order
RECURSIVE FieldNames(_)
FieldNames(c_fields) ==
    IF c_fields = <<>> THEN <<>>
    ELSE [k \in 1..Len(c_fields[1][3]) |-> c_fields[1][3][k][1]]
         \o FieldNames(Tail(c_fields))

InitStruct ==
    /\ source_text = <<>> /\ source = <<>> /\ index = 0 /\ cache = <<>> /\ if_stack = <<>>
    /\ macros = EmptyDict /\ out = <<>> /\ status = "idle"
    /\ type_map = <<>> /\ functions = <<>> /\ unknown_types = {}
    /\ at_type_map = INITIAL_TYPE_MAP
    /\ cache_file = <<>> /\ cache_loaded = "False" /\ ret = <<>>
    /\ at_methods = <<>> /\ parser_context = <<>>
    /\ process = <<>> /\ classes = <<>> /\ method = None
    /\ emitted = None
    /\ jvm = None

\* ActionTranslator.__init__, lines 324-331: an item of pegen.h that is the
\* TypeDecl of a StructType; types holds what add_types and the typedefs
\* before it have added
translator_struct_typedef ==
    /\ emitted = None
    /\ \E body \in StructBodies, name \in {"KeyPair", "StarEtc", "Memo"} :
          LET Item(item) ==
                /\ item[1] = "TypeDecl" /\ item[2][1] = "StructType"
                /\ IF EndsWith(item[3], "Pair")
                      \/ item[3] \in {"SlashWithDefault", "StarEtc", "AugOperator"}
                   THEN emitted' = <<"struct", item[3], FieldNames(item[2][3]),
                                     create_struct_pair(item[3], item[2][3],
                                                        at_type_map)>>
                   ELSE emitted' = <<"none", item[3], FieldNames(item[2][3]), "">>
              Tokens(t) ==
                Item(parse_typedef(t.out, ParserTypes \cup {"expr_ty", "asdl_seq"},
                                   0).ast)
          IN Tokens(TokenizeAll(RawTokens(StructTypedef(body, name)), EmptyDict))
    /\ jvm' = None
    /\ UNCHANGED <<tokVars, ttVars, actVars, process, classes, method>>

\* The class of the Java text: its constructors, and for every public
\* method without parameters that returns a field, the field
JavaHolderClass(text) ==
    LET toks == JavaTokens(text)
        name == toks[FirstToken(toks, "class") + 1]
        ms == ClassMembers(text)
        forms == [i \in 1..Len(ms) |-> JavaForm(ms[i])]
        cons == {i \in 1..Len(ms) : forms[i].head = <<"public", name>>}
        gets == {i \in 1..Len(ms) :
                    /\ forms[i].head # <<>>
                    /\ forms[i].head[1] \in {"public", "@Override"}
                    /\ forms[i].arity = 0
                    /\ Len(forms[i].body) = 7
                    /\ SubSeq(forms[i].body, 1, 4) = <<"{", "return", "this", ".">>
                    /\ SubSeq(forms[i].body, 6, 7) = <<";", "}">>}
    IN [name |-> name,
        constructors |-> {forms[i] : i \in cons},
        getters |-> {<<Last(forms[i].head), forms[i].body[5]>> : i \in gets}]

\* the names that the tokens params declare: the last word of each
\* parameter, the parameters being separated by commas
DeclaredNames(params) ==
    LET ends == {k \in 1..Len(params) : k = Len(params) \/ params[k + 1] = ","}
        Nth(i) == CHOOSE k \in ends : Cardinality({h \in ends : h < k}) = i - 1
    IN [i \in 1..Cardinality(ends) |-> params[Nth(i)]]

\* a call of an accessor of the class emitted
java_call_accessor ==
    /\ emitted # None /\ emitted[1] = "struct"
    /\ \E g \in JavaHolderClass(emitted[4]).getters :
          jvm' = [called |-> g[1], returned |-> g[2]]
    /\ UNCHANGED <<tokVars, ttVars, actVars, process, classes, method, emitted>>

NextStruct == translator_struct_typedef \/ java_call_accessor

SpecStruct == InitStruct /\ [][NextStruct]_vars

\* C17 as claimed: the class written for a struct typedef whose name ends
\* with Pair has a single constructor, with one parameter per field of the
\* struct in the order of the declaration, and one getter per field, which
\* returns the field; when the struct has exactly two fields it has
\* getFirst, which returns the first field, and getSecond, which returns
\* the second.
C17_StructPair ==
    (emitted # None /\ emitted[1] = "struct" /\ EndsWith(emitted[2], "Pair")) =>
       LET cls == JavaHolderClass(emitted[4])
           fields == emitted[3]
       IN /\ Cardinality(cls.constructors) = 1
          /\ \A con \in cls.constructors : DeclaredNames(con.params) = fields
          /\ \A k \in 1..Len(fields) :
                <<"get" \o str_remove(str_title(fields[k]), "_"), fields[k]>>
                   \in cls.getters
          /\ Len(fields) = 2 =>
                /\ <<"getFirst", fields[1]>> \in cls.getters
                /\ <<"getSecond", fields[2]>> \in cls.getters

-----------------------------------------------------------------------------
(* cparser/ast.py: the fields of the nodes, repr() of a node, and the      *)
(* visitors.  What a visit method returns is <<"str", text>> for a str and *)
(* <<"node", node>> for a node.                                            *)

\* cls._fields with the type of each field: a str, a node, a list of nodes
\* or a list of str
NodeFields ==
    [cls \in {"BaseType", "ConstType", "EnumType", "FuncType", "PointerType",
              "AddressOf", "Assignment", "Attribute", "AugAssignment", "BinOp",
              "Call", "Comparison", "Const", "ConstArray", "Deref", "IfExpr",
              "Name", "SizeOf", "Subscript", "TypeCast", "UnaryOp",
              "UnarySuffixOp"} |->
       CASE cls = "BaseType" -> <<<<"name", "str">>>>
         [] cls = "ConstType" -> <<<<"type", "node">>>>
         [] cls = "EnumType" -> <<<<"names", "strs">>>>
         [] cls = "FuncType" -> <<<<"return_type", "node">>, <<"params", "nodes">>>>
         [] cls = "PointerType" -> <<<<"base", "node">>>>
         [] cls = "AddressOf" -> <<<<"value", "node">>>>
         [] cls = "Assignment" -> <<<<"target", "node">>, <<"source", "node">>>>
         [] cls = "Attribute" -> <<<<"value", "node">>, <<"name", "str">>>>
         [] cls = "AugAssignment" ->
               <<<<"target", "node">>, <<"op", "str">>, <<"source", "node">>>>
         [] cls \in {"BinOp", "Comparison"} ->
               <<<<"left", "node">>, <<"op", "str">>, <<"right", "node">>>>
         [] cls = "Call" -> <<<<"func", "node">>, <<"args", "nodes">>>>
         [] cls = "Const" -> <<<<"value", "str">>>>
         [] cls = "ConstArray" -> <<<<"values", "nodes">>>>
         [] cls = "Deref" -> <<<<"value", "node">>>>
         [] cls = "IfExpr" ->
               <<<<"test", "node">>, <<"body", "node">>, <<"orelse", "node">>>>
         [] cls = "Name" -> <<<<"value", "str">>>>
         [] cls = "SizeOf" -> <<<<"target", "node">>>>
         [] cls = "Subscript" -> <<<<"value", "node">>, <<"index", "node">>>>
         [] cls = "TypeCast" -> <<<<"type", "node">>, <<"value", "node">>>>
         [] cls \in {"UnaryOp", "UnarySuffixOp"} ->
               <<<<"op", "str">>, <<"value", "node">>>>]

\* repr(node) of a dataclass node; repr of a str puts it in quotes
RECURSIVE NodeRepr(_)
NodeRepr(node) ==
    LET fields == NodeFields[node[1]]
        Value(kind, v) ==
            CASE kind = "str" -> "'" \o v \o "'"
              [] kind = "node" -> NodeRepr(v)
              [] kind = "nodes" ->
                    "[" \o join(", ", [k \in 1..Len(v) |-> NodeRepr(v[k])]) \o "]"
              [] kind = "strs" ->
                    "[" \o join(", ", [k \in 1..Len(v) |-> "'" \o v[k] \o "'"]) \o "]"
    IN node[1] \o "("
       \o join(", ", [k \in 1..Len(fields) |->
                        fields[k][1] \o "=" \o Value(fields[k][2], node[k + 1])])
       \o ")"

\* what a visit method returns or raises, and ActionVisitor.names after it
VOk(val, names) == [exc |-> "", val |-> val, names |-> names]
VRaise(e) == [exc |-> e, val |-> <<>>, names |-> {}]
VStr(s, names) == VOk(<<"str", s>>, names)
IsStr(val) == val[1] = "str"

\* f"{val}": a node is formatted by its repr
Fmt(val) == IF IsStr(val) THEN val[2] ELSE NodeRepr(val[2])

\* F of a visit that returned; the exception otherwise
VThen(r, F(_)) == IF r.exc # "" THEN r ELSE F(r)

\* text.replace(old, new) of str
RECURSIVE str_replace(_, _, _)
str_replace(text, old, new) ==
    LET k == Find(text, old, 0)
    IN IF old = "" \/ k < 0 THEN text
       ELSE SubSeq(text, 1, k) \o new
            \o str_replace(SubSeq(text, k + Len(old) + 1, Len(text)), old, new)

\* the loop of visit_Call, lines 164-166, from args[i] on
RECURSIVE xmacro_replace(_, _, _)
xmacro_replace(text, args, i) ==
    IF i > Len(args) THEN text
    ELSE xmacro_replace(str_replace(text, "#" \o <<"1", "2", "3", "4">>[i], args[i]),
                        args, i + 1)

INITIAL_ATTR_MAP ==
    <<<<"lineno", "getLineno()">>, <<"col_offset", "getColOffset()">>,
      <<"end_lineno", "getEndLineno()">>, <<"end_col_offset", "getEndColOffset()">>,
      <<"kind", "getKind()">>, <<"feature_version", "getFeatureVersion()">>,
      <<"id", "getId()">>, <<"args", "getArgs()">>, <<"keywords", "getKeywords()">>,
      <<"key", "getKey()">>, <<"value", "getValue()">>>>

xmacros == <<<<"seq_LEN", <<1, "#1.length">>>>, <<"seq_GET", <<2, "#1[#2]">>>>>>

-----------------------------------------------------------------------------
(* pegen/action_translator.py: ActionVisitor.  tr is the translator, the   *)
(* record of its type_map, attr_map and methods; the keys and values of    *)
(* type_map are sequences of characters.                                   *)

\* name in self.translator.type_map, and self.translator.type_map[name]
InTypeMap(tr, name) == DHas(tr.type_map, Chars(name))
TypeMapGet(tr, name) == Join(DGet(tr.type_map, Chars(name)))

\* ActionVisitor.visit_Name: the text, and whether it joins self.names
NameText(tr, value) ==
    LET name0 == IF StartsWith(value, "asdl_") THEN SubSeq(value, 6, Len(value))
                 ELSE value
        name1 == IF InTypeMap(tr, name0) THEN TypeMapGet(tr, name0) ELSE name0
        idx == Find(name1, "(", 0)
    IN IF InTypeMap(tr, name0) /\ idx >= 0 THEN SubSeq(name1, 1, idx) ELSE name1

\* visit_Name without the test for a dot: every name joins self.names
visit_Name_every(tr, node) ==
    LET name == NameText(tr, node[2])
    IN VStr(name, {name})

visit_Name(tr, node) ==
    LET name == NameText(tr, node[2])
    IN VStr(name, IF ~Contains(name, ".") THEN {name} ELSE {})

\* ActionVisitor.translate_type(type) for a CType: the translator's
\* translate_type of str(type)
visit_translate_type(tr, type) ==
    LET text == IF type[1] \in {"BaseType", "ConstType", "PointerType"}
                THEN CTypeStr(type) ELSE NodeRepr(type)
        r == translate_type(tr.type_map, Chars(text))
    IN IF r.exc # "" THEN VRaise(r.exc) ELSE VStr(Join(r.val), {})

RECURSIVE Visit(_, _)
RECURSIVE VisitList(_, _, _)

\* Visitor.visit(nodes) of a list, from nodes[k] on: val is the list of
\* what the visits return
VisitList(tr, nodes, k) ==
    IF k > Len(nodes) THEN VOk(<<>>, {})
    ELSE LET First(a) ==
                LET Rest(b) == VOk(<<a.val>> \o b.val, a.names \cup b.names)
                IN VThen(VisitList(tr, nodes, k + 1), Rest)
         IN VThen(Visit(tr, nodes[k]), First)

\* Visitor.default_visit: the fields are visited, the node is returned
default_visit(tr, node) ==
    LET fields == NodeFields[node[1]]
        children == [k \in 1..Len(fields) |->
                        CASE fields[k][2] = "node" -> <<node[k + 1]>>
                          [] fields[k][2] = "nodes" -> node[k + 1]
                          [] OTHER -> <<>>]
        Done(r) == VOk(<<"node", node>>, r.names)
    IN VThen(VisitList(tr, Flatten(children), 1), Done)

\* ActionVisitor.visit_Call, lines 159-168: args is the list of what the
\* visits of the arguments returned
call_text(func, args0) ==
    IF Len(args0) > 0 /\ ~IsStr(Last(args0)) THEN VRaise("AttributeError")
    ELSE LET args1 == IF Len(args0) > 0 /\ EndsWith(Last(args0)[2], ".arena")
                      THEN ButLast(args0) ELSE args0
             args == [k \in 1..Len(args1) |-> args1[k][2]]
             str_args == \A k \in 1..Len(args1) : IsStr(args1[k])
         IN IF DHas(xmacros, func) /\ DGet(xmacros, func)[1] = Len(args1)
            THEN IF str_args
                 THEN VStr(xmacro_replace(DGet(xmacros, func)[2], args, 1), {})
                 ELSE VRaise("TypeError")
            ELSE IF str_args THEN VStr(func \o "(" \o join(", ", args) \o ")", {})
            ELSE VRaise("TypeError")

\* ActionVisitor.visit_Call
visit_Call(tr, node) ==
    LET Func(f) ==
            LET func == f.val[2]
                Text(f1, a) ==
                    LET t == call_text(f1, a.val)
                    IN IF t.exc # "" THEN t
                       ELSE VOk(t.val, f.names \cup a.names)
                Plain(a) == Text(func, a)
                params == DGet(tr.methods, func)
            IN IF ~IsStr(f.val) THEN VRaise("AttributeError")
               ELSE IF StartsWith(func, "#.")
               THEN IF node[3] = <<>> THEN VRaise("IndexError")
                    ELSE LET Arg0(a0) ==
                                LET Rest(a) ==
                                        Text(a0.val[2] \o SubSeq(func, 2, Len(func)),
                                             [a EXCEPT !.names = @ \cup a0.names])
                                IN IF ~IsStr(a0.val) THEN VRaise("TypeError")
                                   ELSE VThen(VisitList(tr, Tail(node[3]), 1), Rest)
                         IN VThen(Visit(tr, node[3][1]), Arg0)
               ELSE IF DHas(tr.methods, func)
               THEN IF func = "PyPegen.newTypeComment" /\ Len(params) = 1
                    THEN IF Len(node[3]) < 2 THEN VRaise("IndexError")
                         ELSE LET Arg1(a) == VOk(a.val, f.names \cup a.names)
                              IN VThen(Visit(tr, node[3][2]), Arg1)
                    ELSE IF Len(params) > 0 /\ Last(params) = "PyArena"
                    THEN VThen(VisitList(tr, SubSeq(node[3], 2, Len(node[3]) - 1), 1),
                               Plain)
                    ELSE VThen(VisitList(tr, SubSeq(node[3], 2, Len(node[3])), 1), Plain)
               ELSE VThen(VisitList(tr, node[3], 1), Plain)
    IN VThen(Visit(tr, node[2]), Func)

\* ActionVisitor.visit_Attribute
visit_Attribute(tr, node) ==
    IF /\ InTypeMap(tr, "_PyAST_" \o node[3])
       /\ node[2][1] = "Attribute"
       /\ node[2][3] = "v"
    THEN LET base0 == node[2][2]
             base == IF base0[1] = "TypeCast" THEN base0[3] ELSE base0
             Cast(b) == VStr("((" \o node[3] \o ") " \o Fmt(b.val) \o ")", b.names)
         IN VThen(Visit(tr, base), Cast)
    ELSE LET name == IF DHas(tr.attr_map, node[3]) THEN DGet(tr.attr_map, node[3])
                     ELSE node[3]
             Dot(v) == VStr(Fmt(v.val) \o "." \o name, v.names)
         IN VThen(Visit(tr, node[2]), Dot)

\* ActionVisitor.visit_TypeCast
visit_TypeCast(tr, node) ==
    IF /\ node[3][1] = "Call"
       /\ node[3][2][1] = "Name"
       /\ node[3][2][2] \in {"CHECK_CALL", "CHECK_CALL_NULL_ALLOWED"}
    THEN IF Len(node[3][3]) < 2 THEN VRaise("IndexError")
         ELSE Visit(tr, node[3][3][2])
    ELSE LET Typed(t) ==
                LET Value(v) == VStr("(" \o t.val[2] \o ")" \o Fmt(v.val), v.names)
                IN VThen(Visit(tr, node[3]), Value)
         IN VThen(visit_translate_type(tr, node[2]), Typed)

\* two and three operands visited in turn, and the text F of what they gave
Visit2(tr, a, b, F(_, _)) ==
    LET A(x) == LET B(y) == VStr(F(Fmt(x.val), Fmt(y.val)), x.names \cup y.names)
                IN VThen(Visit(tr, b), B)
    IN VThen(Visit(tr, a), A)

\* ActionVisitor.visit_IfExpr
visit_IfExpr(tr, node) ==
    LET T(t) ==
          LET B(b) ==
                LET O(o) ==
                      LET test == IF node[2][1] = "Name"
                                  THEN "(" \o Fmt(t.val) \o " != null)"
                                  ELSE Fmt(t.val)
                      IN VStr("(" \o test \o " ? " \o Fmt(b.val) \o " : "
                              \o Fmt(o.val) \o ")",
                              t.names \cup b.names \cup o.names)
                IN VThen(Visit(tr, node[4]), O)
          IN VThen(Visit(tr, node[3]), B)
    IN VThen(Visit(tr, node[2]), T)

\* Visitor.visit(node) of an ActionVisitor: the visit method of the class
\* of the node, default_visit where there is none
Visit(tr, node) ==
    LET cls == node[1]
        Assign(t, s) == t \o " = " \o s \o ";"
        AugAssign(t, s) == t \o " " \o node[3] \o "= " \o s \o ";"
        Bin(l, r) == "(" \o l \o " " \o node[3] \o " " \o r \o ")"
        Sub(v, i) == v \o "[" \o i \o "]"
        Prefix(v) == VStr(node[2] \o Fmt(v.val), v.names)
        Suffix(v) == VStr(Fmt(v.val) \o node[2], v.names)
    IN CASE cls = "Name" -> visit_Name(tr, node)
         [] cls = "Const" -> VStr(IF node[2] = "NULL" THEN "null" ELSE node[2], {})
         [] cls = "Call" -> visit_Call(tr, node)
         [] cls = "Attribute" -> visit_Attribute(tr, node)
         [] cls = "TypeCast" -> visit_TypeCast(tr, node)
         [] cls = "IfExpr" -> visit_IfExpr(tr, node)
         [] cls = "Assignment" -> Visit2(tr, node[2], node[3], Assign)
         [] cls = "AugAssignment" -> Visit2(tr, node[2], node[4], AugAssign)
         [] cls \in {"BinOp", "Comparison"} -> Visit2(tr, node[2], node[4], Bin)
         [] cls = "Subscript" -> Visit2(tr, node[2], node[3], Sub)
         [] cls = "UnaryOp" -> VThen(Visit(tr, node[3]), Prefix)
         [] cls = "UnarySuffixOp" -> VThen(Visit(tr, node[3]), Suffix)
         [] OTHER -> default_visit(tr, node)

\* ActionTranslator.translate_action(action) with parser_context.macros =
\* ms and parser_context.types = types: what it returns or raises, and the
\* macros of the parser context after it
translate_action(tr, ms, types, action) ==
    LET Result(p, v, t) ==
            [exc |-> IF p.exc # "" THEN p.exc ELSE v.exc,
             val |-> IF p.exc # "" THEN <<>> ELSE v.val,
             names |-> IF p.exc # "" THEN {} ELSE v.names,
             parsed |-> IF p.exc # "" THEN <<>> ELSE <<p.ast>>,
             macros |-> t.st.macros]
        Parsed(p) ==
            Result(p, IF p.exc # "" THEN VRaise(p.exc) ELSE Visit(tr, p.ast),
                   TokenizeAll(RawTokens(action), ms))
    IN Parsed(ParserContext_parse_expr(ms, types, action))

-----------------------------------------------------------------------------
(* Grammar actions are translated one after the other by one translator,   *)
(* whose tables hold the initial entries and, once it is added, the        *)
(* constructor of an AST node.                                             *)

MaxTranslations == 2    \* calls of translate_action

\* the texts of the actions, as their lexemes
ActionTexts ==
    { <<"x">>, <<"X">>, <<"Py_None">>, <<"Py_ssize_t">>, <<"asdl_arg">>,
      <<"int_ty", "+", "Py_None">>,
      <<"f", "(", "a", ",", "b", ")">>,
      <<"f", "(", "a", ",", "p", ".", "arena", ")">>,
      <<"_PyAST_Call", "(", "p", ",", "a", ",", "b", ")">>,
      <<"seq_LEN", "(", "a", ")">>,
      <<"a", "?", "b", ":", "NULL">>,
      <<"a", ".", "lineno">>,
      <<"Py_LOCAL_INLINE", "(", "x", ")">>,
      <<"(", "expr_ty", ")", "x">>,
      <<"&", "x">>, <<"*", "p">>, <<"sizeof", "(", "x", ")">>,
      <<"{", "1", ",", "2", "}">>,
      <<"f", "(", "&", "x", ")">>, <<"f", "(", "{", "1", "}", ")">>,
      <<"a", "+", "*", "p">>,
      <<"x", ")", "(">>,
      <<"X", "\n", "#define", "X", "y", "\n">> }

\* ParserContext.define_macro(name, body) with self.macros = ms: the macros
\* after it
ParserContext_define_macro(ms, name, body) ==
    TokenizeAll(RawTokens(<<"#define">> \o name \o body \o <<"\n">>), ms).st.macros

\* ActionTranslator.__init__: the macro and the types given to the parser
\* context, the types of the type map among them, and expr_ty of pegen.h
InitAction ==
    /\ source_text = <<>> /\ source = <<>> /\ index = 0 /\ cache = <<>> /\ if_stack = <<>>
    /\ macros = ParserContext_define_macro(
                    EmptyDict, <<"Py_LOCAL_INLINE", "(", "t", ")">>, <<"t">>)
    /\ out = <<>> /\ status = "idle"
    /\ type_map = <<>> /\ functions = <<>> /\ unknown_types = {}
    /\ at_type_map = INITIAL_TYPE_MAP
    /\ cache_file = <<>> /\ cache_loaded = "False" /\ ret = <<>>
    /\ at_methods = <<>>
    /\ parser_context =
          [types |-> {"PyTypeObject", "PyObject", "Token", "int_ty",
                      "identifier_ty", "expr_ty"},
           ast |-> <<>>]
    /\ process = <<>> /\ classes = <<>> /\ method = None
    /\ emitted = None
    /\ jvm = None

\* the translator at work
Translator ==
    [type_map |-> at_type_map, attr_map |-> INITIAL_ATTR_MAP,
     methods |-> at_methods]

\* ActionTranslator.__init__, lines 393-398: the function _PyAST_Call of
\* pegen.h, which builds a node and takes the parser first and the arena last
translator_add_constructor ==
    /\ ~DHas(at_type_map, Chars("_PyAST_Call"))
    /\ at_type_map' = DPut(at_type_map, Chars("_PyAST_Call"), Chars("new Call()"))
    /\ at_methods' = DPut(at_methods, "new Call", <<"Expr", "Expr", "PyArena">>)
    /\ UNCHANGED <<tokVars, type_map, functions, unknown_types, cache_file,
                   cache_loaded, ret, parser_context, process, javaVars>>

\* translate_action with a parser context that takes the names of the
\* expression for types
translator_translate_action_typing ==
    /\ Len(ret) < MaxTranslations
    /\ \E action \in ActionTexts :
          LET Returned(r) ==
                /\ macros' = r.macros
                /\ parser_context' =
                      [types |-> IF r.parsed = <<>> THEN parser_context.types
                                 ELSE parser_context.types \cup ParserTypes
                                      \cup r.names,
                       ast |-> parser_context.ast \o r.parsed]
                /\ ret' = Append(ret, [action |-> action, exc |-> r.exc,
                                       val |-> r.val, names |-> r.names,
                                       parsed |-> r.parsed,
                                       type_map |-> at_type_map,
                                       methods |-> at_methods,
                                       macros |-> macros])
          IN Returned(translate_action(Translator, macros, parser_context.types,
                                       action))
    /\ UNCHANGED <<source_text, source, index, cache, if_stack, out, status, type_map,
                   functions, unknown_types, at_type_map, cache_file,
                   cache_loaded, at_methods, process, javaVars>>

\* translator.translate_action(action): ret holds what each call so far
\* returned or raised, and the tables and the macros it began with
translator_translate_action ==
    /\ Len(ret) < MaxTranslations
    /\ \E action \in ActionTexts :
          LET Returned(r) ==
                /\ macros' = r.macros
                /\ parser_context' =
                      [types |-> IF r.parsed = <<>> THEN parser_context.types
                                 ELSE parser_context.types \cup ParserTypes,
                       ast |-> parser_context.ast \o r.parsed]
                /\ ret' = Append(ret, [action |-> action, exc |-> r.exc,
                                       val |-> r.val, names |-> r.names,
                                       parsed |-> r.parsed,
                                       type_map |-> at_type_map,
                                       methods |-> at_methods,
                                       macros |-> macros])
          IN Returned(translate_action(Translator, macros, parser_context.types,
                                       action))
    /\ UNCHANGED <<source_text, source, index, cache, if_stack, out, status, type_map,
                   functions, unknown_types, at_type_map, cache_file,
                   cache_loaded, at_methods, process, javaVars>>

NextAction == translator_add_constructor \/ translator_translate_action

SpecAction == InitAction /\ [][NextAction]_vars

\* what a call of translate_action returned or raised
Outcome(r) == <<r.exc, r.val, r.names>>

\* the calls i and j were made with the same type map and methods
SameTables(i, j) ==
    ret[i].type_map = ret[j].type_map /\ ret[i].methods = ret[j].methods

\* C18 as claimed: two calls of translate_action in a row with the same
\* text, the type map and the methods unchanged between them, return the
\* same text and the same set of names, or raise the same exception.
C18_TwiceTheSame ==
    \A i \in 1..(Len(ret) - 1) :
       (ret[i].action = ret[i + 1].action /\ SameTables(i, i + 1)) =>
          Outcome(ret[i]) = Outcome(ret[i + 1])

\* the text has no #define in it
DefinesNothing(action) == \A k \in 1..Len(action) : action[k] # "#define"

\* C18, amended: two calls of translate_action in a row with the same text,
\* in which no macro is defined, the type map and the methods unchanged
\* between them, return the same text and the same set of names, or raise
\* the same exception; the first leaves the macros as they were, and what
\* it leaves in the parser context is the node it parsed, at the end of
\* ParserContext.ast.
C18_TwiceTheSameWithoutDefine ==
    \A i \in 1..(Len(ret) - 1) :
       (/\ ret[i].action = ret[i + 1].action
        /\ SameTables(i, i + 1)
        /\ DefinesNothing(ret[i].action)) =>
          /\ Outcome(ret[i]) = Outcome(ret[i + 1])
          /\ ret[i + 1].macros = ret[i].macros
          /\ ret[i + 1].parsed = ret[i].parsed
          /\ Len(parser_context.ast) >= Len(ret[i].parsed) + Len(ret[i + 1].parsed)

\* a cast to a type of the parser context is translated twice
C18_Witness ==
    /\ Len(ret) = 2
    /\ ret[1].action = <<"(", "expr_ty", ")", "x">>
    /\ ret[2].action = ret[1].action
    /\ SameTables(1, 2)
    /\ ret[2].exc = ""
    /\ ret[2].val = <<"str", "(ExprTy)x">>
    /\ ret[2].names = {"x"}
    /\ Len(parser_context.ast) = 2
    /\ ParserTypes \subseteq parser_context.types

-----------------------------------------------------------------------------
(* The names of an expression, read from its nodes.                        *)

\* node and every node below it
RECURSIVE AllNodes(_)
AllNodes(node) ==
    LET fields == NodeFields[node[1]]
        below == UNION {CASE fields[k][2] = "node" -> {node[k + 1]}
                          [] fields[k][2] = "nodes" ->
                                {node[k + 1][h] : h \in 1..Len(node[k + 1])}
                          [] OTHER -> {} : k \in 1..Len(fields)}
    IN {node} \cup UNION {AllNodes(n) : n \in below}

\* the plain names of the expression
PlainNames(node) == {n[2] : n \in {m \in AllNodes(node) : m[1] = "Name"}}

\* name without the prefix asdl_
Stripped(name) ==
    IF StartsWith(name, "asdl_") THEN SubSeq(name, 6, Len(name)) ELSE name

\* the translator of the call r
TranslatorOf(r) ==
    [type_map |-> r.type_map, attr_map |-> INITIAL_ATTR_MAP, methods |-> r.methods]

\* node is visited without some of its arguments: a call of a method of the
\* translator or of a substitution that starts with "#.", and the cast of a
\* CHECK_CALL
DropsArguments(tr, node) ==
    \/ /\ node[1] = "Call"
       /\ LET f == Visit(tr, node[2])
          IN f.exc = "" /\ IsStr(f.val)
             /\ (StartsWith(f.val[2], "#.") \/ DHas(tr.methods, f.val[2]))
    \/ /\ node[1] = "TypeCast"
       /\ node[3][1] = "Call"
       /\ node[3][2][1] = "Name"
       /\ node[3][2][2] \in {"CHECK_CALL", "CHECK_CALL_NULL_ALLOWED"}

\* C19 as claimed: the set of names translate_action returns holds exactly
\* the plain names of the expression that, the prefix asdl_ stripped, are
\* not keys of the type map.
C19_NamesWithoutSubstitution ==
    \A i \in 1..Len(ret) :
       ret[i].exc = "" =>
          ret[i].names =
             {Stripped(n) : n \in {m \in PlainNames(ret[i].parsed[1]) :
                                      ~InTypeMap(TranslatorOf(ret[i]), Stripped(m))}}

\* C19, amended: the set of names translate_action returns holds no text
\* with a dot in it, and every member is what visit_Name gives for a plain
\* name of the expression: the name with the prefix asdl_ stripped or, when
\* that is a key of the type map, its substitution up to the first "(".
\* Where no node is visited without some of its arguments, the set holds
\* every such text that has no dot: a substituted name is reported under
\* its substitution.
C19_NamesAfterSubstitution ==
    \A i \in 1..Len(ret) :
       ret[i].exc = "" =>
          LET tr == TranslatorOf(ret[i])
              ast == ret[i].parsed[1]
              texts == {NameText(tr, n) : n \in PlainNames(ast)}
              reported == {t \in texts : ~Contains(t, ".")}
          IN /\ ret[i].names \subseteq reported
             /\ (\A n \in AllNodes(ast) : ~DropsArguments(tr, n)) =>
                   ret[i].names = reported

\* int_ty is reported as int, its substitution; Py_None, whose
\* substitution has a dot, is not reported
C19_Witness ==
    /\ ret # <<>>
    /\ Last(ret).action = <<"int_ty", "+", "Py_None">>
    /\ Last(ret).exc = ""
    /\ Last(ret).val = <<"str", "(int + PyPegen.None)">>
    /\ Last(ret).names = {"int"}
    /\ PlainNames(Last(ret).parsed[1]) = {"int_ty", "Py_None"}

\* C20 as claimed: for every text the parser accepts, translate_action
\* returns a text and a set of names: it raises nothing and what it returns
\* first is a str, also where the expression holds an address-of, a
\* dereference, a sizeof or a brace list.
C20_AlwaysText ==
    \A i \in 1..Len(ret) :
       ret[i].parsed # <<>> => ret[i].exc = "" /\ IsStr(ret[i].val)

-----------------------------------------------------------------------------
(* cparser/tokenizer.py, RawTokenizer: the scanner of the characters.  src *)
(* is RawTokenizer.source as the sequence of its characters, and i, j are  *)
(* indices into it that count from 0, as in the source.                    *)

\* src[i]
At(src, i) == src[i + 1]

\* src[i:j], as a str
Slice_str(src, i, j) ==
    Join(SubSeq(src, (IF i < 0 THEN 0 ELSE i) + 1,
                IF j > Len(src) THEN Len(src) ELSE j))

\* src[i:i+2] == two
IsAt(src, i, two) == i + 1 < Len(src) /\ Slice_str(src, i, i + 2) = two

\* the first j >= i that is the end of src or has ~P(src[j]):
\* `while j < len(src) and P(src[j]): j += 1`
Span(src, i, P(_)) ==
    IF i >= Len(src) THEN i
    ELSE CHOOSE j \in i..Len(src) :
            /\ j = Len(src) \/ ~P(At(src, j))
            /\ \A k \in i..(j - 1) : P(At(src, k))

\* str.isidentifier() and str.isdigit() of one character
isidentifier(c) == IsUpper(c) \/ IsLower(c) \/ c = "_"
isdigit(c) == c \in DigitChars
IsHexDigit(c) == isdigit(c) \/ c \in {"A", "B", "C", "D", "E", "F",
                                       "a", "b", "c", "d", "e", "f"}

\* TokenType._double_char_symbols and TokenType._triple_char_symbols
DoubleCharSymbols ==
    ("->" :> "ARROW") @@ ("==" :> "COMPARE") @@ ("!=" :> "COMPARE") @@
    ("<=" :> "COMPARE") @@ (">=" :> "COMPARE") @@ ("+=" :> "AUGASSIGN") @@
    ("-=" :> "AUGASSIGN") @@ ("*=" :> "AUGASSIGN") @@ ("/=" :> "AUGASSIGN") @@
    ("%=" :> "AUGASSIGN") @@ ("&=" :> "AUGASSIGN") @@ ("|=" :> "AUGASSIGN") @@
    ("^=" :> "AUGASSIGN") @@ ("&&" :> "OPERATOR") @@ ("||" :> "OPERATOR") @@
    ("<<" :> "SHIFT_OPERATOR") @@ (">>" :> "SHIFT_OPERATOR") @@
    ("++" :> "INCREMENT") @@ ("--" :> "DECREMENT")
TripleCharSymbols ==
    ("..." :> "ELLIPSIS") @@ (">>=" :> "AUGASSIGN") @@ ("<<=" :> "AUGASSIGN")

\* what read_token returns: the token (None at the end of the source),
\* RawTokenizer.index and RawTokenizer._want_line_break after it
Scanned(token, idx, want) == [token |-> token, index |-> idx, want |-> want]

\* RawTokenizer._consume(index, count, token_type)
consume(src, i, count, token_type, want) ==
    Scanned(Some(Tok(token_type, i, Slice_str(src, i, i + count))), i + count, want)

\* read_token, lines 257-261: white space is skipped up to a newline that
\* is wanted (nl), or to a character that is not white space
RECURSIVE skip_space(_, _, _)
skip_space(src, i, want_nl) ==
    IF i < Len(src) /\ At(src, i) \in Whitespace
    THEN IF At(src, i) = "\n" /\ want_nl THEN [nl |-> TRUE, i |-> i]
         ELSE skip_space(src, i + 1, want_nl)
    ELSE [nl |-> FALSE, i |-> i]

\* read_token, lines 263-266: a line comment and the newline that ends it
skip_line_comment(src, i) ==
    LET NotNewline(c) == c # "\n"
        End(j) == IF j < Len(src) THEN j + 1 ELSE j
    IN End(Span(src, i, NotNewline))

\* read_token, lines 268-270: a block comment
skip_block_comment(src, i) ==
    IF i + 4 >= Len(src) THEN i + 4
    ELSE CHOOSE j \in (i + 4)..Len(src) :
            /\ j = Len(src) \/ Slice_str(src, j - 2, j) = "*/"
            /\ \A k \in (i + 4)..(j - 1) : Slice_str(src, k - 2, k) # "*/"

\* read_token, lines 256-273: white space, comments and masked newlines
RECURSIVE skip_blank(_, _, _)
skip_blank(src, i, want_nl) ==
    LET After(b) ==
            IF b.nl THEN b
            ELSE IF IsAt(src, b.i, "//")
            THEN skip_blank(src, skip_line_comment(src, b.i), want_nl)
            ELSE IF IsAt(src, b.i, "/*")
            THEN skip_blank(src, skip_block_comment(src, b.i), want_nl)
            ELSE IF IsAt(src, b.i, "\\\n")
            THEN skip_blank(src, b.i + 2, want_nl)
            ELSE b
    IN After(skip_space(src, i, want_nl))

\* read_token, lines 325-335: the end of a string literal that opens at i
RECURSIVE string_end(_, _, _)
string_end(src, ch, i) ==
    IF i < Len(src) /\ At(src, i) # ch
    THEN IF At(src, i) = "\\" /\ i + 1 < Len(src)
         THEN string_end(src, ch, i + 2)
         ELSE string_end(src, ch, i + 1)
    ELSE IF i < Len(src) THEN i + 1 ELSE i

\* read_token, lines 280-291: a directive
read_directive(src, i, want) ==
    LET IsHash(c) == c = "#"
        Named(j, e) ==
            LET w == want \/ (j = i + 1 /\ (i = 0 \/ At(src, i - 1) = "\n"))
                Typed(s) ==
                    IF s = "##__VA_ARGS__"
                    THEN Scanned(Some(Tok("VARARGS", i, s)), e, w)
                    ELSE Scanned(Some(Tok("DIRECTIVE", i, s)), e, w)
            IN Typed(Slice_str(src, i, e))
        Hashes(j) == Named(j, Span(src, j, isidentifier))
    IN Hashes(Span(src, i, IsHash))

\* read_token, lines 299-323: a number
read_number(src, i, want) ==
    LET ch == At(src, i)
        Fraction(j) ==
            IF j + 1 < Len(src) /\ At(src, j) = "."
            THEN Span(src, j + 1, isdigit) ELSE j
    IN IF ch = "0" /\ i + 2 < Len(src) /\ At(src, i + 1) \in {"X", "x"}
          /\ isdigit(At(src, i + 2))
       THEN consume(src, i, Span(src, i + 2, IsHexDigit) - i, "NUMBER", want)
       ELSE IF isdigit(ch)
       THEN consume(src, i, Fraction(Span(src, i, isdigit)) - i, "NUMBER", want)
       ELSE consume(src, i, Span(src, i + 1, isdigit) - i, "NUMBER", want)

\* RawTokenizer.read_token()
read_token(src, idx, want) ==
    LET IsWord(c) == isidentifier(c) \/ isdigit(c)
        Token(i) ==
            LET ch == At(src, i)
            IN IF ch = "#" THEN read_directive(src, i, want)
               ELSE IF isidentifier(ch)
               THEN consume(src, i, Span(src, i, IsWord) - i, "IDENTIFIER", want)
               ELSE IF \/ isdigit(ch)
                       \/ ch = "." /\ i + 1 < Len(src) /\ isdigit(At(src, i + 1))
               THEN read_number(src, i, want)
               ELSE IF ch \in {"\"", "'"}
               THEN consume(src, i, string_end(src, ch, i + 1) - i, "STRING", want)
               ELSE IF Slice_str(src, i, i + 3) \in DOMAIN TripleCharSymbols
               THEN consume(src, i, 3, TripleCharSymbols[Slice_str(src, i, i + 3)],
                            want)
               ELSE IF Slice_str(src, i, i + 2) \in DOMAIN DoubleCharSymbols
               THEN consume(src, i, 2, DoubleCharSymbols[Slice_str(src, i, i + 2)],
                            want)
               ELSE IF ch \in DOMAIN SingleCharSymbols
               THEN consume(src, i, 1, SingleCharSymbols[ch], want)
               ELSE consume(src, i, 1, "SYMBOL", want)
        After(b) ==
            IF b.nl THEN consume(src, b.i, 1, "NEWLINE", FALSE)
            ELSE IF b.i >= Len(src) THEN Scanned(None, Len(src), want)
            ELSE Token(b.i)
    IN After(skip_blank(src, idx, want))

\* list(RawTokenizer(source)): RawTokenizer.__next__ up to StopIteration
RECURSIVE RawTokenizer_from(_, _, _, _)
RawTokenizer_from(src, idx, want, acc) ==
    LET After(r) ==
            IF IsNone(r.token) THEN acc
            ELSE RawTokenizer_from(src, r.index, r.want, Append(acc, TheValue(r.token)))
    IN IF idx < Len(src) THEN After(read_token(src, idx, want)) ELSE acc

RawTokenizer_list(src) == RawTokenizer_from(src, 0, FALSE, <<>>)

\* Tokenizer.__init__: the source given to the RawTokenizer
Tokenizer_source(src) ==
    IF Len(src) > 0 /\ Last(src) # "\n" THEN Append(src, "\n") ELSE src

-----------------------------------------------------------------------------
(* Texts scanned character by character: a text is made of a few pieces,   *)
(* directive lines, comments, a string literal that is not closed, names   *)
(* and newlines, and is tokenized by next(tokenizer) until it stops.       *)

MaxPieces == 3      \* pieces in a text

LexPieces ==
    {"#define A 1", "#if 1", "#if x y", "#else", "#endif", " // c\n", " /* c",
     " */", "\"s", "x", "\n", "\\\n"}

LexTexts == {join("", p) : p \in SeqsUpTo(LexPieces, MaxPieces)}

\* Tokenizer(text): Tokenizer.__init__, and the RawTokenizer of the text
Tokenizer_init(src) ==
    /\ type_map = <<>> /\ functions = <<>> /\ unknown_types = {}
    /\ at_type_map = <<>> /\ cache_file = <<>> /\ cache_loaded = "False"
    /\ ret = <<>>
    /\ NoGen
    /\ source_text = Tokenizer_source(src)
    /\ source = RawTokenizer_list(Tokenizer_source(src))
    /\ index = 0
    /\ cache = <<>>
    /\ if_stack = <<>>
    /\ macros = EmptyDict
    /\ out = <<>>
    /\ status = "running"

InitLex == \E t \in LexTexts : Tokenizer_init(Chars(t))

SpecLex == InitLex /\ [][Next_token]_vars

\* a string literal of the raw tokens src that its quote does not close
UnterminatedString(src) ==
    \E k \in 1..Len(src) :
       /\ KindOf(src[k]) = "STRING"
       /\ \/ Len(TextOf(src[k])) = 1
          \/ Char(TextOf(src[k]), Len(TextOf(src[k]))) # Char(TextOf(src[k]), 1)

\* a block comment of the text txt that nothing closes: it opens where no
\* quote and no comment was opened before, and no `*/` follows
UnterminatedComment(txt) ==
    \E i \in 0..(Len(txt) - 2) :
       /\ IsAt(txt, i, "/*")
       /\ \A j \in 0..(i - 1) : At(txt, j) # "\"" /\ ~IsAt(txt, j, "//")
                                /\ ~IsAt(txt, j, "/*")
       /\ \A j \in (i + 2)..(Len(txt) - 2) : ~IsAt(txt, j, "*/")

\* the condition of an `#if` line that the tokenizer evaluates: one
\* number, or defined ( NAME )
EvaluableIf(src, k) ==
    LET line == LineOf(src, k)
    IN \/ Len(line) = 1 /\ KindOf(src[k + 1]) = "NUMBER"
       \/ Len(line) >= 4 /\ line[1] = "defined" /\ line[2] = "(" /\ line[4] = ")"

\* The first directive read from k on, depth conditionals being open,
\* that is an `#else` or `#endif` without an open conditional or an `#if`
\* with a condition that is not evaluated; 0 when there is none.  A
\* directive is read with its line, up to the NEWLINE token.
RECURSIVE FirstBadDirective(_, _, _)
FirstBadDirective(src, k, depth) ==
    IF k > Len(src) THEN 0
    ELSE IF KindOf(src[k]) # "DIRECTIVE" THEN FirstBadDirective(src, k + 1, depth)
    ELSE IF LineEnd(src, k) = 0 THEN 0
    ELSE IF TextOf(src[k]) \in {"#else", "#endif"} /\ depth = 0 THEN k
    ELSE IF TextOf(src[k]) = "#if" /\ ~EvaluableIf(src, k) THEN k
    ELSE FirstBadDirective(src, LineEnd(src, k) + 1,
            IF TextOf(src[k]) \in {"#if", "#ifdef", "#ifndef"} THEN depth + 1
            ELSE IF TextOf(src[k]) = "#endif" THEN depth - 1
            ELSE depth)

RECURSIVE DirectivesRead(_, _, _)
DirectivesRead(src, k, upto) ==
    IF k > upto THEN {}
    ELSE IF KindOf(src[k]) # "DIRECTIVE" THEN DirectivesRead(src, k + 1, upto)
    ELSE IF LineEnd(src, k) = 0 THEN {k}
    ELSE {k} \cup DirectivesRead(src, LineEnd(src, k) + 1, upto)

\* the end of the logical line of the text txt that holds the character i:
\* the first newline from i on that no backslash precedes
LogicalLineEnd(txt, i) ==
    LET Ends(j) == At(txt, j) = "\n" /\ (j = 0 \/ At(txt, j - 1) # "\\")
    IN IF \E j \in i..(Len(txt) - 1) : Ends(j)
       THEN CHOOSE j \in i..(Len(txt) - 1) :
               Ends(j) /\ \A h \in i..(j - 1) : ~Ends(h)
       ELSE Len(txt)

\* the directive at the raw token k begins a line of the text
AtLineStart(txt, src, k) ==
    PosOf(src[k]) = 0 \/ At(txt, PosOf(src[k]) - 1) = "\n"

\* C28: the tokens that the tokenizer has read as the line of a directive
\* lie on the logical line of the directive, before the first newline
\* that no backslash escapes, also when a line comment ends the line; and
\* the tokens of the body of every macro lie on the logical line of a
\* `#define` that was read.
C28_DirectiveOwnLine ==
    LET read == DirectivesRead(source, 1, index)
        OnLineOf(k, t) ==
            /\ PosOf(source[k]) < PosOf(t)
            /\ PosOf(t) < LogicalLineEnd(source_text, PosOf(source[k]))
    IN /\ \A k \in read :
             AtLineStart(source_text, source, k) =>
                \A j \in (k + 1)..index :
                   (LineEnd(source, k) = 0 \/ j < LineEnd(source, k))
                      => OnLineOf(k, source[j])
       /\ \A n \in DOMAIN macros :
             \A b \in 1..Len(macros[n].body) :
                \E k \in read : /\ TextOf(source[k]) = "#define"
                                /\ OnLineOf(k, macros[n].body[b])

-----------------------------------------------------------------------------
(* The conditional stack while a text of conditional directives is        *)
(* tokenized (SpecCond).                                                   *)

\* the directives named in words among the directives the tokenizer has
\* read up to the raw token upto
CountRead(src, upto, words) ==
    Cardinality({k \in DirectivesRead(src, 1, upto) : TextOf(src[k]) \in words})

\* C23: while the tokenizer runs and when it has come to the end, the depth
\* of if_stack is the number of `#if`, `#ifdef` and `#ifndef` directives
\* read so far less the number of `#endif` directives read so far, in
\* visible and in hidden regions alike; so if_stack is empty at the end of
\* a text that has as many of the ones as of the others.
C23_StackDepth ==
    LET opened(upto) == CountRead(source, upto, {"#if", "#ifdef", "#ifndef"})
        closed(upto) == CountRead(source, upto, {"#endif"})
    IN /\ status \in {"running", "done"} =>
             Len(if_stack) = opened(index) - closed(index)
       /\ (status = "done" /\ opened(Len(source)) = closed(Len(source))) =>
             if_stack = <<>>

\* a conditional has been opened inside a hidden region and the tokenizer
\* goes on: two conditionals are open, the outer one false
C23_Witness ==
    /\ status = "running"
    /\ Len(if_stack) = 2 /\ ~if_stack[1]
    /\ CountRead(source, index, {"#if", "#ifdef", "#ifndef"}) = 2

-----------------------------------------------------------------------------
(* Macro definitions inside conditionals: texts made of conditional        *)
(* directives, `#define` lines for A and uses of A, one per line.          *)

MaxHiddenLines == 4

HiddenLines ==
    { <<"#if", "0", "\n">>, <<"#endif", "\n">>,
      <<"#define", "A", "x", "\n">>, <<"#define", "A", "y", "\n">>,
      <<"#ifdef", "A", "\n">>, <<"#ifndef", "A", "\n">>,
      <<"#if", "defined", "(", "A", ")", "\n">>, <<"A">> }

InitHidden ==
    \E lines \in SeqsUpTo(HiddenLines, MaxHiddenLines) : TokInit(Flatten(lines))

SpecHidden == InitHidden /\ [][Next_token]_vars

\* What the claim has the tokenizer do with the raw tokens k..upto of src,
\* stack being the conditionals open and env the macros defined: every
\* `#define` defines its macro, in a hidden region as in a visible one, and
\* only its DEFINE token depends on the region; a conditional is decided
\* by the macros defined where it stands; a token of a visible region is
\* returned with its macros expanded.  The result is the stack, the
\* macros, and the kinds and texts of the tokens returned.
RECURSIVE RefHidden(_, _, _, _, _)
RefHidden(src, k, upto, stack, env) ==
    LET visible == stack = <<>> \/ Last(stack)
        line == LineOf(src, k)
        Returned(ts, r) == [r EXCEPT !.out = ts \o @]
        Rest(s, e) == RefHidden(src, LineEnd(src, k) + 1, upto, s, e)
        Kinds(texts) == [j \in 1..Len(texts) |-> <<RawKind(texts[j]), texts[j]>>]
    IN IF k > upto THEN [stack |-> stack, env |-> env, out |-> <<>>]
       ELSE IF KindOf(src[k]) # "DIRECTIVE"
       THEN Returned(IF visible THEN Kinds(ExpandRef(env, <<TextOf(src[k])>>))
                     ELSE <<>>,
                     RefHidden(src, k + 1, upto, stack, env))
       ELSE IF TextOf(src[k]) = "#define"
       THEN Returned(IF visible
                     THEN << <<"DEFINE", line[1] \o " := " \o Join(Tail(line))>> >>
                     ELSE <<>>,
                     Rest(stack, (line[1] :> Tail(line)) @@ env))
       ELSE IF TextOf(src[k]) = "#if"
       THEN Rest(Append(stack, IF line[1] = "defined" THEN line[3] \in DOMAIN env
                               ELSE line[1] # "0"), env)
       ELSE IF TextOf(src[k]) = "#ifdef"
       THEN Rest(Append(stack, line[1] \in DOMAIN env), env)
       ELSE IF TextOf(src[k]) = "#ifndef"
       THEN Rest(Append(stack, line[1] \notin DOMAIN env), env)
       ELSE IF TextOf(src[k]) = "#endif" /\ stack # <<>>
       THEN Rest(ButLast(stack), env)
       ELSE Rest(stack, env)

-----------------------------------------------------------------------------
(* A class K and an interface I: fields are added to K, I takes all the    *)
(* members of K with add_all, and both declarations are generated.         *)

MaxImplFields == 2  \* fields added to the class K

\* the name of the k-th field added to K
ImplFieldNames == <<"x", "my_val", "int">>

InitImpl ==
    /\ NoTranslation /\ process = <<>> /\ jvm = <<>>
    /\ classes = [n \in {"I", "K"} |->
                    IF n = "I" THEN JavaInterface("I") ELSE JavaClass("K", None)]
    /\ method = None
    /\ emitted = None

\* K.add(JavaVariable(name, j_type, is_final=..., is_static=...,
\* is_private=..., is_exposed=...)), before I is populated
impl_add_field ==
    /\ Len(classes.K.fields) < MaxImplFields
    /\ classes.I.fields = <<>>
    /\ emitted = None
    /\ \E j_type \in {"int", "String"},
          flags \in SUBSET {"final", "static", "private", "exposed"} :
          classes' = [classes EXCEPT !.K =
                         Cls_add_variable(@,
                            JavaVariableWith(ImplFieldNames[Len(classes.K.fields) + 1],
                                             j_type, None, FALSE, flags)).cls]
    /\ UNCHANGED <<tokVars, ttVars, actVars, process, jvm, method, emitted>>

\* I.add_all(K)
impl_add_all ==
    /\ classes.I.fields = <<>>
    /\ classes.K.fields # <<>>
    /\ classes' = [classes EXCEPT !.I = Iface_add_all(@, classes.K)]
    /\ UNCHANGED <<tokVars, ttVars, actVars, process, jvm, method, emitted>>

\* I.declaration and K.declaration
impl_declaration ==
    /\ classes.I.fields # <<>>
    /\ emitted = None
    /\ emitted' = <<"declarations", Iface_declaration(classes, classes.I),
                    Cls_declaration(classes, classes.K)>>
    /\ UNCHANGED <<tokVars, ttVars, actVars, process, jvm, classes, method>>

NextImpl == impl_add_field \/ impl_add_all \/ impl_declaration

SpecImpl == InitImpl /\ [][NextImpl]_vars

\* the class member c is a public method with the signature sig, which
\* ends with a semicolon
ImplementsSignature(c, sig) ==
    /\ Len(c) > Len(sig)
    /\ SubSeq(c, 1, Len(sig)) = <<"public">> \o SubSeq(sig, 1, Len(sig) - 1)
    /\ c[Len(sig) + 1] = "{"

\* C30 as claimed: for a class and an interface populated from it with
\* add_all, every getter and setter signature that the interface declares
\* is also emitted as a method by the class declaration, whatever the
\* flags of the field are.
C30_ClassImplementsInterface ==
    emitted # None =>
       LET sigs == ClassMembers(emitted[2])
           ms == ClassMembers(emitted[3])
       IN \A i \in 1..Len(sigs) :
             \E k \in 1..Len(ms) : ImplementsSignature(ms[k], sigs[i])

\* the same for the fields that are not exposed: a field of K that is
\* exposed has a getter in I and none in K
C30_UnexposedImplemented ==
    (emitted # None /\ \A k \in 1..Len(classes.K.fields) :
                          ~classes.K.fields[k].is_exposed) =>
       LET sigs == ClassMembers(emitted[2])
           ms == ClassMembers(emitted[3])
       IN \A i \in 1..Len(sigs) :
             \E k \in 1..Len(ms) : ImplementsSignature(ms[k], sigs[i])

\* both declarations are emitted for a class with a plain field, which has
\* a getter and a setter in both, and a final one
C30_Witness ==
    /\ emitted # None
    /\ Len(classes.K.fields) = 2
    /\ classes.K.fields[1] = JavaVariable("x", "int")
    /\ classes.K.fields[2].is_final /\ ~classes.K.fields[2].is_exposed
    /\ ~classes.K.fields[2].is_private /\ ~classes.K.fields[2].is_static
    /\ Len(ClassMembers(emitted[2])) = 3

-----------------------------------------------------------------------------
(* JavaMemoizedParserMethod *)

\* JavaMemoizedParserMethod(cls, name, return_j_type, args, body,
\* is_non_empty_loop=...): hash_arg is 'm = this.mark()' and hash_j_type
\* is 'int'
JavaMemoizedParserMethod(cls, name, return_j_type, args, body, is_non_empty_loop) ==
    [f \in DOMAIN JavaMemoizedMethod(cls, name, return_j_type, args, body,
                                     Some("m = this.mark()"), Some("int"))
           \cup {"is_non_empty_loop"} |->
        IF f = "is_non_empty_loop" THEN is_non_empty_loop
        ELSE JavaMemoizedMethod(cls, name, return_j_type, args, body,
                                Some("m = this.mark()"), Some("int"))[f]]

\* get_memoization_body() of a JavaMemoizedParserMethod: [exc, code]
ParserMemo_get_memoization_body(m) ==
    LET args == join(", ", [k \in 1..Len(m.args) |-> m.args[k].name])
        given == TheValue(m.hash_arg)
        hash_arg == IF HasHashArg(m)
                    THEN IF Contains(given, "=")
                         THEN str_strip(Slice(given, 0, Find(given, "=", 0)))
                         ELSE given
                    ELSE m.args[1].name
        code0 == Memo_get_hash_arg_code(m)
        get_arg == IF code0 # "" THEN code0 \o "\n    " ELSE ""
        ret_type == MemoRetType(m.return_j_type)
        put == m.name \o "_cache.put(" \o hash_arg
               \o ", new Memo<>(result, this.mark()));\n"
        code == "    " \o get_arg \o "Memo<" \o ret_type \o "> info = " \o m.name
                \o "_cache.get(" \o hash_arg \o ");\n"
                \o "    if (info != null) {\n"
                \o "      log(\"" \o m.name \o "() [cached]-> \" + info.toString());\n"
                \o "      this.reset(info.end_mark);\n"
                \o "      return info.item;\n"
                \o "    }\n"
                \o "    logl(\"" \o m.name \o "() ...\");\n"
                \o "    this._level += 1;\n"
                \o "    " \o m.return_j_type \o " result = _" \o m.name \o "("
                \o args \o ");\n"
                \o "    this._level -= 1;\n"
                \o "    log(\"" \o m.name \o "() [fresh]-> \", result);\n"
    IN IF ~HasHashArg(m) /\ m.args = <<>>
       THEN [exc |-> "ValueError", code |-> ""]
       ELSE [exc |-> "",
             code |-> IF ret_type # m.return_j_type
                      THEN code \o "    " \o put \o "    return result;"
                      ELSE IF m.is_non_empty_loop
                      THEN code \o "    if (result.length > 0) {\n      " \o put
                           \o "      return result;    }\n    return null;"
                      ELSE code \o "    if (result != null)\n      " \o put
                           \o "    return result;"]

-----------------------------------------------------------------------------
(* The body of the parser-memoized method f is generated and run in a      *)
(* parser object: the statements are read from the emitted text, the       *)
(* private computation _f behind it moves the cursor of the parser forward *)
(* and returns any value of its type, and the caller of f resets the       *)
(* cursor when it backtracks.                                              *)

MaxPos == 2             \* the cursor of the parser is one of 0..MaxPos
MaxComputations == 2    \* invocations of the private computation

ParserReturnTypes == {"Expr[]", "Expr", "int"}

\* what the computation may return: an int, null or an object, null or an
\* array of no or one element
ParserResults(j_type) ==
    CASE j_type = "int" -> {"0", "1"}
      [] j_type = "Expr" -> {"null", "e"}
      [] OTHER -> {"null", "[]", "[e]"}

\* result.length of an array
ArrayLength(result) == IF result = "[]" THEN 0 ELSE 1

InitPackrat ==
    /\ NoTranslation /\ process = <<>>
    /\ classes = ("K" :> JavaClass("K", None))
    /\ \E return_j_type \in ParserReturnTypes, is_non_empty_loop \in BOOLEAN :
          method = JavaMemoizedParserMethod(
                      <<"JavaClass", "K">>, "f", return_j_type,
                      <<JavaVariable("a", "int")>>, Some(<<"return rule(a);">>),
                      is_non_empty_loop)
    /\ emitted = None
    /\ jvm = <<>>

\* the tokens of toks after the last token stop before position k, up to
\* position k - 1
TokensSince(toks, stop, k) ==
    LET from == IF \E h \in 1..(k - 1) : toks[h] = stop
                THEN CHOOSE h \in 1..(k - 1) :
                        toks[h] = stop /\ \A g \in (h + 1)..(k - 1) : toks[g] # stop
                ELSE 0
    IN SubSeq(toks, from + 1, k - 1)

\* The statements of the body code of the method `name`, as javac and the
\* JVM take them: the type argument of its Memo, the key it looks up and
\* whether the key is the cursor at entry, what it does with an entry it
\* finds, the type of its result, whether it stores the result, with the
\* cursor or without, and under which condition.  It is rejected when a
\* primitive type is a type argument or is compared with null, and when
\* the length of something that is no array is taken.
PackratProgram(code, name) ==
    LET body == JavaTokens(code)
        c == name \o "_cache"
        at_info == FirstToken(body, "info")
        at_get == FirstToken(body, "get")
        at_result == FirstToken(body, "result")
        key == body[at_get + 2]
        at_if == Find(body, <<"if", "(", "info", "!", "=", "null", ")", "{">>, 0) + 1
        found == SubSeq(body, at_if,
                        at_if - 1 + FirstToken(SubSeq(body, at_if, Len(body)), "}"))
        put1 == <<c, ".", "put", "(", key, ",", "new", "Memo", "<", ">", "(",
                  "result", ")", ")", ";">>
        put2 == <<c, ".", "put", "(", key, ",", "new", "Memo", "<", ">", "(",
                  "result", ",", "this", ".", "mark", "(", ")", ")", ")", ";">>
        put == IF Contains(body, put2) THEN put2 ELSE put1
        if_not_null == <<"if", "(", "result", "!", "=", "null", ")">>
    IN [memo_type |-> SubSeq(body, FirstToken(body, "<") + 1, at_info - 2),
        key_is_mark |->
           Contains(SubSeq(body, 1, at_info),
                    <<"int", key, "=", "this", ".", "mark", "(", ")", ";">>),
        returns_found |-> Contains(found, <<"return", "info", ".", "item", ";">>),
        resets |->
           Contains(found, <<"this", ".", "reset", "(", "info", ".", "end_mark",
                             ")", ";", "return", "info", ".", "item", ";">>),
        result_type |-> TokensSince(body, ";", at_result),
        stores |-> Contains(body, put),
        marks |-> Contains(body, put2),
        stores_if |->
           IF Contains(body, <<"if", "(", "result", ".", "length", ">", "0", ")",
                               "{">> \o put
                             \o <<"return", "result", ";", "}", "return", "null", ";">>)
           THEN "non-empty"
           ELSE IF \/ Contains(body, if_not_null \o put)
                   \/ Contains(body, if_not_null \o <<"{">> \o put \o <<"}">>)
           THEN "not null"
           ELSE "always"]

PackratCompiles(prog) ==
    /\ Len(prog.memo_type) = 1 => prog.memo_type[1] \notin JavaPrimitiveTypes
    /\ prog.stores_if = "not null" => prog.result_type[1] \notin JavaPrimitiveTypes
    /\ prog.stores_if = "non-empty" => Len(prog.result_type) = 3

\* method.get_memoization_body(), and a new parser object that has loaded
\* the method with this body
packrat_body ==
    /\ emitted = None
    /\ LET LoadedBody(code) ==
              /\ emitted' = Some(code)
              /\ jvm' = [program |-> PackratProgram(code, method.name),
                         cache |-> <<>>, pos |-> 0, calls |-> 0, ends |-> <<>>,
                         last |-> None]
       IN LoadedBody(ParserMemo_get_memoization_body(method).code)
    /\ UNCHANGED <<tokVars, ttVars, actVars, process, classes, method>>

\* a call f(a) on the parser object, the computation _f leaving the cursor
\* at pos and returning result if it is invoked; a text that javac rejects
\* can not be called
packrat_call ==
    /\ emitted # None
    /\ jvm.calls < MaxComputations \/ jvm.pos \in DOMAIN jvm.cache
    /\ \E pos \in jvm.pos..MaxPos, result \in ParserResults(method.return_j_type) :
          LET Run(prog) ==
                 LET key == IF prog.key_is_mark THEN jvm.pos ELSE "a"
                     found == key \in DOMAIN jvm.cache
                     hit == found /\ prog.returns_found
                     raises == /\ ~hit /\ prog.stores_if = "non-empty"
                               /\ result = "null"
                     store == /\ ~hit /\ ~raises /\ prog.stores
                              /\ prog.stores_if = "not null" => result # "null"
                              /\ prog.stores_if = "non-empty" => ArrayLength(result) > 0
                     call == [key |-> key, found |-> found, cache |-> jvm.cache,
                              calls |-> jvm.calls, pos |-> jvm.pos,
                              computed |-> IF hit THEN None ELSE Some(result)]
                 IN IF ~PackratCompiles(prog)
                    THEN jvm' = [jvm EXCEPT !.last =
                                    Some(call @@ [outcome |-> "rejected", value |-> "",
                                                  pos_after |-> jvm.pos])]
                    ELSE jvm' =
                       [program |-> prog,
                        cache |-> IF store
                                  THEN Put(jvm.cache, key,
                                           [item |-> result,
                                            end_mark |-> IF prog.marks THEN pos
                                                         ELSE 0])
                                  ELSE jvm.cache,
                        pos |-> IF hit
                                THEN IF prog.resets THEN jvm.cache[key].end_mark
                                     ELSE jvm.pos
                                ELSE pos,
                        calls |-> IF hit THEN jvm.calls ELSE jvm.calls + 1,
                        ends |-> IF hit THEN jvm.ends ELSE Put(jvm.ends, key, pos),
                        last |-> Some(call @@
                                   [outcome |-> IF raises THEN "NullPointerException"
                                                ELSE "returned",
                                    value |-> IF hit THEN jvm.cache[key].item
                                              ELSE IF raises THEN ""
                                              ELSE IF /\ prog.stores_if = "non-empty"
                                                      /\ ArrayLength(result) = 0
                                              THEN "null"
                                              ELSE result,
                                    pos_after |-> IF hit /\ prog.resets
                                                  THEN jvm.cache[key].end_mark
                                                  ELSE IF hit THEN jvm.pos
                                                  ELSE pos])]
          IN Run(jvm.program)
    /\ UNCHANGED <<tokVars, ttVars, actVars, process, classes, method, emitted>>

\* this.reset(pos) by the caller of f, which backtracks
packrat_reset ==
    /\ emitted # None
    /\ \E pos \in 0..MaxPos :
          /\ pos # jvm.pos
          /\ jvm' = [jvm EXCEPT !.pos = pos]
    /\ UNCHANGED <<tokVars, ttVars, actVars, process, classes, method, emitted>>

NextPackrat == packrat_body \/ packrat_call \/ packrat_reset

SpecPackrat == InitPackrat /\ [][NextPackrat]_vars

\* the last call of the parser-memoized method, and what it left
LastParserCall == TheValue(jvm.last)

C27_EmptyLoopFails ==
    (/\ emitted # None /\ jvm.last # None
     /\ method.is_non_empty_loop /\ method.return_j_type = "Expr[]"
     /\ LastParserCall.computed \in {Some("null"), Some("[]")}) =>
       /\ LastParserCall.outcome = "returned"
       /\ LastParserCall.value = "null"
       /\ jvm.cache = LastParserCall.cache
       /\ LastParserCall.key \notin DOMAIN jvm.cache

-----------------------------------------------------------------------------
(* The nested class Memo that a memoized method gives to its class *)

_JAVA_MODIFIERS ==
    <<"public", "protected", "private", "abstract", "static", "final", "strictfp">>

\* JavaClass(name, modifiers=..., generics=...), with the nested classes
\* and the imports that its declaration emits
JavaClassWith(name, modifiers, generics) ==
    JavaClass(name, None)
    @@ [modifiers |-> modifiers, generics |-> generics, nested_cls |-> <<>>,
        imports |-> {}]

\* cls.add(item) for a JavaClass: a dict entry by the name of the class
Cls_add_class(cls, item) == [cls EXCEPT !.nested_cls = Put(@, item.name, item)]

\* memo_class of JavaMemoizedMethod.__init__
MemoClass ==
    Cls_add_variable(JavaClassWith("Memo", {"private", "static"}, <<"U">>),
                     JavaVariableWith("item", "U", None, FALSE,
                                      {"final", "exposed"})).cls

\* memo_class after JavaMemoizedParserMethod.__init__
ParserMemoClass ==
    Cls_add_method(
       Cls_add_variable(MemoClass,
                        JavaVariableWith("end_mark", "int", None, FALSE,
                                         {"final", "exposed"})).cls,
       JavaMethod(<<"JavaClass", "Memo">>, "toString", Some("String"), <<>>,
                  Some(<<"if (item != null)\n      return item.toString() + \":~\" + end_mark;\n    else\n      return \"<null>:~\" + end_mark;">>),
                  FALSE, TRUE))

\* what JavaMemoizedMethod.__init__ does to the class cls of the method:
\* cls.add(self.memo_class) and the two imports
Cls_add_memo_class(cls, memo_class) ==
    [Cls_add_class(cls, memo_class) EXCEPT
        !.imports = @ \cup {"java.util.HashMap", "java.util.Map"}]

\* s.replace('\n', '\n  ')
RECURSIVE str_indent(_)
str_indent(s) ==
    IF Len(s) = 0 THEN ""
    ELSE IF Len(s) = 1 THEN (IF s = "\n" THEN "\n  " ELSE s)
    ELSE str_indent(SubSeq(s, 1, Len(s) \div 2))
         \o str_indent(SubSeq(s, Len(s) \div 2 + 1, Len(s)))

\* a < b for two str of dots and letters, by the code points
StrLess(a, b) ==
    LET order == <<".">> \o UpperLetters \o LowerLetters
        n == IF Len(a) < Len(b) THEN Len(a) ELSE Len(b)
        diff == {k \in 1..n : Char(a, k) # Char(b, k)}
    IN IF diff = {} THEN Len(a) < Len(b)
       ELSE LET k == CHOOSE k \in diff : \A h \in diff : k <= h
            IN IndexOf(order, Char(a, k)) < IndexOf(order, Char(b, k))

\* sorted(imports), as lines
RECURSIVE ImportLines(_)
ImportLines(imports) ==
    IF imports = {} THEN <<>>
    ELSE LET first == CHOOSE i \in imports :
                         \A j \in imports : i = j \/ StrLess(i, j)
         IN <<"import " \o first \o ";">> \o ImportLines(imports \ {first})

\* declaration of a JavaMemoizedParserMethod, whose get_memoization_body
\* is its own: [exc, code]
ParserMemo_declaration(cs, m) ==
    LET s == IF m.is_static THEN "static " ELSE ""
        o == IF m.is_override /\ ~Method_is_constructor(m)
             THEN "@Override\n  " ELSE ""
        hash_j_type == IF IsNone(m.hash_j_type) /\ m.args # <<>>
                       THEN m.args[1].j_type
                       ELSE IF IsNone(m.hash_j_type) THEN "None"
                       ELSE TheValue(m.hash_j_type)
        ret_type == MemoRetType(m.return_j_type)
        body == ParserMemo_get_memoization_body(m)
    IN IF body.exc # "" THEN body
       ELSE [exc |-> "",
             code |-> "\n  private " \o s \o "final Map<" \o hash_j_type \o ", Memo<"
                      \o ret_type \o ">> " \o m.name \o "_cache = new HashMap<>();\n"
                      \o "  " \o o \o Method_get_head(cs, m) \o " {\n" \o body.code
                      \o "\n  }\n"
                      \o "  " \o Memo_get_head_private(cs, m) \o " {\n"
                      \o Method_get_body(cs, m) \o "\n  }"]

\* get_all_declarations() of a method of any of the three classes, none
\* of whose parameters is optional
AnyMethod_get_all_declarations(cs, m) ==
    IF "is_non_empty_loop" \in DOMAIN m THEN ParserMemo_declaration(cs, m).code
    ELSE IF "hash_arg" \in DOMAIN m THEN Memo_declaration(cs, m).code
    ELSE Method_get_all_declarations(cs, m)

\* cls.declaration of a class with modifiers, generics, imports and nested
\* classes, and without base class and interfaces
RECURSIVE Cls_declaration_nested(_)
Cls_declaration_nested(cls) ==
    LET cs == (cls.name :> cls)
        mods == {k \in 1..Len(_JAVA_MODIFIERS) : _JAVA_MODIFIERS[k] \in cls.modifiers}
        OrderedMods == [i \in 1..Cardinality(mods) |->
                          _JAVA_MODIFIERS[CHOOSE k \in mods :
                             Cardinality({h \in mods : h < k}) = i - 1]]
        prefix == IF cls.modifiers # {} THEN join(" ", OrderedMods) \o " " ELSE ""
        generics == IF cls.generics # <<>>
                    THEN "<" \o join(", ", cls.generics) \o ">" ELSE ""
        names == DOMAIN cls.nested_cls
        Nested(n) == <<"  " \o str_indent(Cls_declaration_nested(cls.nested_cls[n])),
                       "">>
        RECURSIVE NestedLines(_)
        NestedLines(ns) ==
           IF ns = {} THEN <<>>
           ELSE LET n == CHOOSE n \in ns : TRUE
                IN Nested(n) \o NestedLines(ns \ {n})
    IN join("\n",
            (IF cls.imports # {} THEN ImportLines(cls.imports) \o <<"">> ELSE <<>>)
            \o <<prefix \o "class " \o cls.name \o generics \o " {">>
            \o [k \in 1..Len(cls.fields) |-> Var_declaration(cls.fields[k])]
            \o <<"">>
            \o (IF names # {} THEN <<"">> \o NestedLines(names) ELSE <<>>)
            \o (IF cls.fields # <<>>
                THEN <<Method_get_all_declarations(cs, cls.constructor), "">>
                ELSE <<>>)
            \o AccessorLines(cls.fields, 1)
            \o [k \in 1..Len(cls.methods) |->
                  AnyMethod_get_all_declarations(cs, cls.methods[k])]
            \o <<"}">>)

-----------------------------------------------------------------------------
(* Memoized methods of both kinds are constructed for a class K and added  *)
(* to it, and the declaration of K is generated.                           *)

MaxMemoized == 3    \* memoized methods constructed for the class K

\* the name of the k-th method constructed
MemoizedNames == <<"f", "g", "h">>

InitMemoClass ==
    /\ NoTranslation /\ process = <<>> /\ jvm = <<>>
    /\ classes = ("K" :> JavaClassWith("K", {}, <<>>))
    /\ method = None
    /\ emitted = None

\* K.add(JavaMemoizedMethod(K, name, return_j_type, [JavaVariable('b',
\* 'String')], 'return compute(b);'))
memoized_add ==
    /\ Len(classes.K.methods) < MaxMemoized
    /\ \E return_j_type \in {"String", "int"} :
          LET m == JavaMemoizedMethod(<<"JavaClass", "K">>,
                                      MemoizedNames[Len(classes.K.methods) + 1],
                                      return_j_type, <<JavaVariable("b", "String")>>,
                                      Some(<<"return compute(b);">>), None, None)
          IN classes' = [classes EXCEPT !.K =
                            Cls_add_method(Cls_add_memo_class(@, MemoClass), m)]
    /\ emitted' = None
    /\ UNCHANGED <<tokVars, ttVars, actVars, process, jvm, method>>

\* K.add(JavaMemoizedParserMethod(K, name, return_j_type, [JavaVariable('a',
\* 'int')], 'return rule(a);', is_non_empty_loop=...))
parser_memoized_add ==
    /\ Len(classes.K.methods) < MaxMemoized
    /\ \E return_j_type \in {"Expr", "Expr[]"}, is_non_empty_loop \in BOOLEAN :
          LET m == JavaMemoizedParserMethod(<<"JavaClass", "K">>,
                                            MemoizedNames[Len(classes.K.methods) + 1],
                                            return_j_type, <<JavaVariable("a", "int")>>,
                                            Some(<<"return rule(a);">>),
                                            is_non_empty_loop)
          IN classes' = [classes EXCEPT !.K =
                            Cls_add_method(Cls_add_memo_class(@, ParserMemoClass), m)]
    /\ emitted' = None
    /\ UNCHANGED <<tokVars, ttVars, actVars, process, jvm, method>>

\* K.declaration
memoized_class_declaration ==
    /\ emitted = None
    /\ emitted' = Some(Cls_declaration_nested(classes.K))
    /\ UNCHANGED <<tokVars, ttVars, actVars, process, jvm, classes, method>>

NextMemoClass == memoized_add \/ parser_memoized_add \/ memoized_class_declaration

SpecMemoClass == InitMemoClass /\ [][NextMemoClass]_vars

\* the positions in toks at which the tokens p begin
Occurrences(toks, p) ==
    {k \in 1..(Len(toks) - Len(p) + 1) : SubSeq(toks, k, k + Len(p) - 1) = p}

\* the number of arguments, or of parameters, between the parenthesis at
\* toks[open] and the one that closes it
ArgCount(toks, open) ==
    LET Depth(k) == Cardinality({h \in open..k : toks[h] = "("})
                    - Cardinality({h \in open..k : toks[h] = ")"})
        close == CHOOSE k \in (open + 1)..Len(toks) :
                    Depth(k) = 0 /\ \A h \in open..(k - 1) : Depth(h) > 0
    IN IF close = open + 1 THEN 0
       ELSE 1 + Cardinality({k \in open..close : toks[k] = "," /\ Depth(k) = 1})

\* C29 as claimed: after any sequence of constructions of memoized methods
\* of both kinds on one class, the class emits one nested type Memo, and
\* the type has a constructor for the arguments of every expression
\* `new Memo<>(...)` that is emitted: one for a general memoized method,
\* two for a parser-memoized method.
C29_MemoAcceptsAll ==
    (emitted # None /\ classes.K.methods # <<>>) =>
       LET toks == JavaTokens(TheValue(emitted))
           constructors == {ArgCount(toks, k + 2) :
                               k \in Occurrences(toks, <<"public", "Memo", "(">>)}
           news == Occurrences(toks, <<"new", "Memo", "<", ">", "(">>)
       IN /\ Cardinality(Occurrences(toks, <<"class", "Memo">>)) = 1
          /\ \A k \in news : ArgCount(toks, k + 4) \in constructors
          /\ Cardinality(news) = Len(classes.K.methods)
          /\ \A i \in 1..Len(classes.K.methods) :
                LET put == <<classes.K.methods[i].name \o "_cache", ".", "put", "(">>
                    at == CHOOSE k \in Occurrences(toks, put) : TRUE
                IN ArgCount(toks, at + 3) = 2
                   /\ \E k \in news :
                         /\ k > at /\ \A h \in news : h > at => k <= h
                         /\ ArgCount(toks, k + 4) =
                               IF "is_non_empty_loop" \in DOMAIN classes.K.methods[i]
                               THEN 2 ELSE 1

-----------------------------------------------------------------------------
(* cparser/parser.py: the parser of declarations and statements.  tokens   *)
(* is Parser.tokens, i is Parser.index, and known is Parser.types and      *)
(* Parser.structs, which the parse methods change.                         *)

ArrayType(type, dimension) == <<"ArrayType", type, dimension>>
Body(stmts) == <<"Body", stmts>>
Break == <<"Break">>
Case(label, stmts) == <<"Case", label, stmts>>
Continue == <<"Continue">>
Decorated(decor, decl) == <<"Decorated", decor, decl>>
DoWhile(test, body) == <<"DoWhile", test, body>>
EllipsisArg == <<"EllipsisArg">>
EmptyStatement == <<"EmptyStatement">>
Expression(expr) == <<"Expression", expr>>
For(init, test, incr, body) == <<"For", init, test, incr, body>>
FunctionDecl(type, name, params, body) == <<"FunctionDecl", type, name, params, body>>
Goto(target) == <<"Goto", target>>
If(test, body, orelse) == <<"If", test, body, orelse>>
Label(name) == <<"Label", name>>
Return(expr) == <<"Return", expr>>
Switch(subject, cases) == <<"Switch", subject, cases>>
While(test, body) == <<"While", test, body>>

\* Parser.types and Parser.structs
Known(types, structs) == [types |-> types, structs |-> structs]
KnownOf(r) == [types |-> r.types, structs |-> r.structs]

\* the outcome of a parse method that changes Parser.types and
\* Parser.structs: the outcome, and the two sets after it
SOk(ast, i, known) ==
    [exc |-> "", ast |-> ast, i |-> i, types |-> known.types,
     structs |-> known.structs]
SRaise(e, i, known) ==
    [exc |-> e, ast |-> <<>>, i |-> i, types |-> known.types,
     structs |-> known.structs]

\* the outcome r of a parse method that leaves the two sets as they are
Keeping(r, known) ==
    [exc |-> r.exc, ast |-> r.ast, i |-> r.i, types |-> known.types,
     structs |-> known.structs]

\* Parser.skip_statement(), from the level reached: None and Parser.index
\* after it, or the TypeError of unpacking the None that next() returns
\* at the end of the tokens
RECURSIVE Parser_skip_statement(_, _, _)
Parser_skip_statement(tokens, i, level) ==
    IF level = 0 /\ match(tokens, i, "SEMICOLON") THEN POk(None, i + 1)
    ELSE IF i >= Len(tokens) THEN PRaise("TypeError", i)
    ELSE Parser_skip_statement(
            tokens, i + 1,
            IF KindOf(tokens[i + 1]) \in {"LEFT_PAR", "LEFT_BRACE", "LEFT_BRACKET"}
            THEN level + 1
            ELSE IF KindOf(tokens[i + 1]) \in
                       {"RIGHT_PAR", "RIGHT_BRACE", "RIGHT_BRACKET"}
            THEN level - 1
            ELSE level)

\* parse_var_decl, lines 153-155: the texts up to the closing bracket
RECURSIVE Parser_dimension(_, _, _)
Parser_dimension(tokens, dim, i) ==
    IF match(tokens, i, "RIGHT_BRACKET") THEN POk(dim, i + 1)
    ELSE IF i >= Len(tokens) THEN PRaise("TypeError", i)     \* None[2]
    ELSE Parser_dimension(tokens, dim \o TextOf(tokens[i + 1]), i + 1)

\* the call self.name() of a parse method with Parser.index = i: what it
\* returns or raises, Parser.index and the two sets after it
RECURSIVE Parser_call(_, _, _, _)
self_parse_type(tokens, known, i) == Parser_call("parse_type", tokens, known, i)
self_parse_var_decl(tokens, known, i) == Parser_call("parse_var_decl", tokens, known, i)
self_parse_stmt(tokens, known, i) == Parser_call("parse_stmt", tokens, known, i)
self_parse_decl(tokens, known, i) == Parser_call("parse_decl", tokens, known, i)
self_parse_expr(tokens, known, i) == Parser_call("parse_expr", tokens, known, i)
self_parse_atom(tokens, known, i) == Parser_call("parse_atom", tokens, known, i)

\* parse_var_decl, lines 164-175: the names after the first one, with
\* their initial values, and the semicolon
RECURSIVE Parser_var_names(_, _, _, _, _)
Parser_var_names(tokens, known, type, names, i) ==
    IF match(tokens, i, "COMMA")
    THEN LET More(n) ==
                IF match(tokens, n.i, "EQUAL")
                THEN LET Init(e) ==
                            Parser_var_names(tokens, known, type,
                                             Append(names, <<n.ast, e.ast>>), e.i)
                     IN PThen(self_parse_expr(tokens, known, n.i + 1), Init)
                ELSE Parser_var_names(tokens, known, type,
                                      Append(names, <<n.ast, None>>), n.i)
         IN PThen(Keeping(next_name(tokens, i + 1), known), More)
    ELSE IF match(tokens, i, "SEMICOLON") THEN SOk(VarDecl(type, names), i + 1, known)
    ELSE SRaise("SyntaxError", i, known)

\* Parser.parse_params(), from the list args reached
RECURSIVE Parser_parse_params(_, _, _, _)
Parser_parse_params(tokens, known, args, i) ==
    IF match(tokens, i, "RIGHT_PAR") THEN SOk(args, i + 1, known)
    ELSE IF match(tokens, i, "ELLIPSIS")
    THEN Parser_parse_params(tokens, known, Append(args, EllipsisArg),
                             skip(tokens, i + 1, "COMMA"))
    ELSE LET Typed(t) ==
                LET named == peek(tokens, t.i, 0) = "IDENTIFIER"
                IN Parser_parse_params(
                      tokens, KnownOf(t),
                      Append(args, VarDecl(t.ast,
                                           IF named
                                           THEN <<<<TextOf(tokens[t.i + 1]), None>>>>
                                           ELSE None)),
                      skip(tokens, IF named THEN t.i + 1 ELSE t.i, "COMMA"))
         IN PThen(self_parse_type(tokens, known, i), Typed)

\* parse_type, lines 210-213: the fields of a struct
RECURSIVE Parser_struct_fields(_, _, _, _, _)
Parser_struct_fields(tokens, known, name, fields, i) ==
    IF match(tokens, i, "RIGHT_BRACE")
    THEN Keeping(check_pointer_star(tokens, StructType(name, fields), i + 1), known)
    ELSE LET Rest(f) == Parser_struct_fields(tokens, KnownOf(f), name,
                                             Append(fields, f.ast), f.i)
         IN PThen(self_parse_var_decl(tokens, known, i), Rest)

\* parse_type, lines 242-245: the parameter types of a function type
RECURSIVE Parser_func_params(_, _, _, _, _)
Parser_func_params(tokens, known, result, params, i) ==
    IF match(tokens, i, "RIGHT_PAR") THEN SOk(FuncType(result, params), i + 1, known)
    ELSE LET Rest(p) == Parser_func_params(tokens, KnownOf(p), result,
                                           Append(params, p.ast),
                                           skip(tokens, p.i, "COMMA"))
         IN PThen(self_parse_type(tokens, known, i), Rest)

\* Parser.parse_type()
Parser_parse_type(tokens, known, i) ==
    IF match_value(tokens, i, "KEYWORD", "struct") THEN
        LET named == peek(tokens, i + 1, 0) = "IDENTIFIER"
            name == IF named THEN TextOf(tokens[i + 2]) ELSE None
            j == IF named THEN i + 2 ELSE i + 1
        IN IF match(tokens, j, "LEFT_BRACE")
           THEN IF named /\ name \in known.structs
                THEN SRaise("SyntaxError", j + 1, known)
                ELSE Parser_struct_fields(
                        tokens,
                        IF named THEN Known(known.types, known.structs \cup {name})
                        ELSE known,
                        name, <<>>, j + 1)
           ELSE IF named
           THEN Keeping(check_pointer_star(tokens, BaseType("struct " \o name), j),
                        known)
           ELSE SRaise("SyntaxError", j, known)
    ELSE IF match_value(tokens, i, "KEYWORD", "enum") THEN
        Keeping(parse_enum_names(tokens, <<>>, skip(tokens, i + 1, "LEFT_BRACE")),
                known)
    ELSE IF match_value(tokens, i, "KEYWORD", "const") THEN
        LET Wrap(t) == [t EXCEPT !.ast = ConstType(@)]
        IN PThen(self_parse_type(tokens, known, i + 1), Wrap)
    ELSE IF match(tokens, i, "LEFT_PAR") THEN
        LET Close(t) == [t EXCEPT !.i = skip(tokens, @, "RIGHT_PAR")]
        IN PThen(self_parse_type(tokens, known, i + 1), Close)
    ELSE
        LET Base(n) ==
                LET two == /\ n.ast \in {"signed", "unsigned"}
                           /\ peek(tokens, n.i, 0) = "IDENTIFIER"
                           /\ TheValue(peek_value(tokens, n.i, 0)) \in known.types
                    name == IF two
                            THEN n.ast \o " " \o TextOf(tokens[n.i + 1])
                            ELSE n.ast
                    Func(t) ==
                        IF /\ peek_seq(tokens, t.i, 4) =
                                <<"LEFT_PAR", "IDENTIFIER", "RIGHT_PAR", "LEFT_PAR">>
                           /\ peek_value(tokens, t.i, 1) = Some("func")
                        THEN Parser_func_params(tokens, known, t.ast, <<>>, t.i + 4)
                        ELSE Keeping(t, known)
                IN PThen(check_pointer_star(tokens, BaseType(name),
                                            IF two THEN n.i + 1 ELSE n.i),
                         Func)
        IN PThen(Keeping(next_name(tokens, i), known), Base)

\* Parser.parse_var_decl()
Parser_parse_var_decl(tokens, known, i) ==
    LET static == match_value(tokens, i, "KEYWORD", "static")
        i1 == IF static THEN i + 1 ELSE i
        inline == match_value(tokens, i1, "IDENTIFIER", "inline")
        i2 == IF inline THEN i1 + 1 ELSE i1
        decor == (IF static THEN "static" ELSE "")
                 \o (IF inline THEN " inline" ELSE "")
        Result(r) == IF decor # "" THEN [r EXCEPT !.ast = Decorated(decor, @)] ELSE r
        Typed(t) ==
            LET First(type, name, j) ==
                    IF match(tokens, j, "EQUAL")
                    THEN LET Init(e) ==
                                Parser_var_names(tokens, KnownOf(t), type,
                                                 <<<<name, e.ast>>>>, e.i)
                         IN PThen(PThen(self_parse_expr(tokens, KnownOf(t), j + 1),
                                        Init),
                                  Result)
                    ELSE PThen(Parser_var_names(tokens, KnownOf(t), type,
                                                <<<<name, None>>>>, j),
                               Result)
                Named(n) ==
                    IF match(tokens, n.i, "LEFT_PAR")
                    THEN LET Params(p) ==
                                IF match(tokens, p.i, "SEMICOLON")
                                THEN Result(SOk(FunctionDecl(t.ast, n.ast, p.ast, None),
                                                p.i + 1, KnownOf(p)))
                                ELSE LET Bodied(b) ==
                                            Result([b EXCEPT !.ast =
                                                      FunctionDecl(t.ast, n.ast,
                                                                   p.ast, @)])
                                     IN PThen(self_parse_stmt(tokens, KnownOf(p), p.i),
                                              Bodied)
                         IN PThen(Parser_parse_params(tokens, KnownOf(t), <<>>,
                                                      n.i + 1),
                                  Params)
                    ELSE IF match(tokens, n.i, "EQUAL") THEN First(t.ast, n.ast, n.i)
                    ELSE IF match(tokens, n.i, "LEFT_BRACKET")
                    THEN LET Dim(d) == First(ArrayType(t.ast, d.ast), n.ast, d.i)
                         IN PThen(Keeping(Parser_dimension(tokens, "", n.i + 1),
                                          KnownOf(t)),
                                  Dim)
                    ELSE First(t.ast, n.ast, n.i)
            IN PThen(Keeping(next_name(tokens, t.i), KnownOf(t)), Named)
    IN PThen(self_parse_type(tokens, known, i2), Typed)

\* parse_stmt, lines 252-254: the statements of a block
RECURSIVE Parser_block(_, _, _, _)
Parser_block(tokens, known, stmts, i) ==
    IF match(tokens, i, "RIGHT_BRACE") THEN SOk(Body(stmts), i + 1, known)
    ELSE LET Rest(s) == Parser_block(tokens, KnownOf(s), Append(stmts, s.ast), s.i)
         IN PThen(self_parse_stmt(tokens, known, i), Rest)

\* parse_case_body() of parse_switch
RECURSIVE Parser_parse_case_body(_, _, _, _)
Parser_parse_case_body(tokens, known, stmts, i) ==
    IF \/ /\ peek(tokens, i, 0) = "KEYWORD"
          /\ TheValue(peek_value(tokens, i, 0)) \in {"case", "default"}
       \/ peek(tokens, i, 0) = "RIGHT_BRACE"
    THEN SOk(stmts, i, known)
    ELSE LET Rest(s) == Parser_parse_case_body(tokens, KnownOf(s),
                                               Append(stmts, s.ast), s.i)
         IN PThen(self_parse_stmt(tokens, known, i), Rest)

\* parse_switch, lines 370-381: the cases
RECURSIVE Parser_switch_cases(_, _, _, _, _)
Parser_switch_cases(tokens, known, subject, cases, i) ==
    IF match(tokens, i, "RIGHT_BRACE") THEN SOk(Switch(subject, cases), i + 1, known)
    ELSE IF match_value(tokens, i, "KEYWORD", "case")
    THEN LET Labelled(l) ==
                LET Rest(b) == Parser_switch_cases(tokens, KnownOf(b), subject,
                                                   Append(cases, Case(l.ast, b.ast)),
                                                   b.i)
                IN PThen(Parser_parse_case_body(tokens, known, <<>>,
                                                skip(tokens, l.i, "COLON")),
                         Rest)
         IN PThen(self_parse_atom(tokens, known, i + 1), Labelled)
    ELSE IF match_value(tokens, i, "KEYWORD", "default")
    THEN LET Rest(b) == Parser_switch_cases(tokens, KnownOf(b), subject,
                                            Append(cases, Case(None, b.ast)), b.i)
         IN PThen(Parser_parse_case_body(tokens, known, <<>>,
                                         skip(tokens, i + 1, "COLON")),
                  Rest)
    ELSE SRaise("SyntaxError", i, known)

\* Parser.parse_switch()
Parser_parse_switch(tokens, known, i) ==
    LET Subject(e) ==
            Parser_switch_cases(tokens, known, e.ast, <<>>,
                                skip(tokens, skip(tokens, e.i, "RIGHT_PAR"),
                                     "LEFT_BRACE"))
    IN PThen(self_parse_expr(tokens, known, skip(tokens, i, "LEFT_PAR")),
             Subject)

\* Parser.parse_expr_or_decl(); the SyntaxError of a keyword that is not
\* struct is built and not raised, and None is returned
Parser_parse_expr_or_decl(tokens, known, i) ==
    IF /\ peek(tokens, i, 0) = "IDENTIFIER"
       /\ TheValue(peek_value(tokens, i, 0)) \in known.types
    THEN self_parse_var_decl(tokens, known, i)
    ELSE IF peek(tokens, i, 0) = "KEYWORD"
    THEN IF peek_value(tokens, i, 0) = Some("struct")
         THEN self_parse_var_decl(tokens, known, i)
         ELSE SOk(None, i, known)
    ELSE LET Wrap(e) == SOk(Expression(e.ast), e.i, known)
         IN PThen(self_parse_expr(tokens, known, i), Wrap)

\* an expression in parentheses and the statement after it, as if and
\* while read them
Parser_test_and_body(tokens, known, i, Node(_, _)) ==
    LET Test(e) ==
            LET Bodied(b) == Node(e, b)
            IN PThen(self_parse_stmt(tokens, known, skip(tokens, e.i, "RIGHT_PAR")),
                     Bodied)
    IN PThen(self_parse_expr(tokens, known, skip(tokens, i, "LEFT_PAR")),
             Test)

\* Parser.parse_stmt()
Parser_parse_stmt(tokens, known, i) ==
    IF match(tokens, i, "LEFT_BRACE") THEN Parser_block(tokens, known, <<>>, i + 1)
    ELSE IF match(tokens, i, "SEMICOLON") THEN SOk(EmptyStatement, i + 1, known)
    ELSE IF /\ peek(tokens, i, 0) = "IDENTIFIER"
            /\ TheValue(peek_value(tokens, i, 0)) \in known.types
    THEN self_parse_var_decl(tokens, known, i)
    ELSE IF peek_seq(tokens, i, 2) = <<"IDENTIFIER", "COLON">>
    THEN SOk(Label(TextOf(tokens[i + 1])), i + 2, known)
    ELSE IF /\ peek(tokens, i, 0) = "KEYWORD"
            /\ TheValue(peek_value(tokens, i, 0)) \in {"const", "struct"}
    THEN self_parse_var_decl(tokens, known, i)
    ELSE IF peek(tokens, i, 0) = "DEFINE" THEN self_parse_stmt(tokens, known, i + 1)
    ELSE IF peek(tokens, i, 0) = "KEYWORD" THEN
        LET keyword == TextOf(tokens[i + 1])
            j == i + 1
            Skipped(at) == Keeping(Parser_skip_statement(tokens, at, 0), known)
        IN CASE keyword = "return" ->
                  IF match(tokens, j, "SEMICOLON") THEN SOk(Return(None), j + 1, known)
                  ELSE LET Wrap(e) == SOk(Return(e.ast),
                                          skip(tokens, e.i, "SEMICOLON"), known)
                       IN PThen(self_parse_expr(tokens, known, j),
                                Wrap)
             [] keyword = "if" ->
                  LET Node(e, b) ==
                         IF match_value(tokens, b.i, "KEYWORD", "else")
                         THEN LET Else(o) == [o EXCEPT !.ast = If(e.ast, b.ast, @)]
                              IN PThen(self_parse_stmt(tokens, KnownOf(b), b.i + 1),
                                       Else)
                         ELSE [b EXCEPT !.ast = If(e.ast, @, None)]
                  IN Parser_test_and_body(tokens, known, j, Node)
             [] keyword = "while" ->
                  LET Node(e, b) == [b EXCEPT !.ast = While(e.ast, @)]
                  IN Parser_test_and_body(tokens, known, j, Node)
             [] keyword = "for" ->
                  LET j1 == skip(tokens, j, "LEFT_PAR")
                      Inited(init) ==
                         LET j2 == skip(tokens, init.i, "SEMICOLON")
                             Tested(test) ==
                                LET j3 == skip(tokens, test.i, "SEMICOLON")
                                    Incred(incr) ==
                                       LET Bodied(b) ==
                                              [b EXCEPT !.ast =
                                                 For(init.ast, test.ast, incr.ast, @)]
                                       IN PThen(self_parse_stmt(
                                                   tokens, KnownOf(incr),
                                                   skip(tokens, incr.i, "RIGHT_PAR")),
                                                Bodied)
                                IN PThen(IF peek(tokens, j3, 0) # "RIGHT_PAR"
                                         THEN Parser_parse_expr_or_decl(
                                                 tokens, KnownOf(init), j3)
                                         ELSE SOk(None, j3, KnownOf(init)),
                                         Incred)
                         IN PThen(IF peek(tokens, j2, 0) # "SEMICOLON"
                                  THEN self_parse_expr(tokens, KnownOf(init), j2)
                                  ELSE SOk(None, j2, KnownOf(init)),
                                  Tested)
                  IN PThen(IF peek(tokens, j1, 0) # "SEMICOLON"
                           THEN Parser_parse_expr_or_decl(tokens, known, j1)
                           ELSE SOk(None, j1, known),
                           Inited)
             [] keyword = "do" ->
                  LET Bodied(b) ==
                         IF match_value(tokens, b.i, "KEYWORD", "while")
                         THEN LET Test(e) ==
                                     SOk(DoWhile(e.ast, b.ast),
                                         skip(tokens, skip(tokens, e.i, "RIGHT_PAR"),
                                              "SEMICOLON"),
                                         KnownOf(b))
                              IN PThen(self_parse_expr(tokens, KnownOf(b),
                                                       skip(tokens, b.i + 1,
                                                            "LEFT_PAR")),
                                       Test)
                         ELSE Keeping(Parser_skip_statement(tokens, b.i, 0), KnownOf(b))
                  IN PThen(self_parse_stmt(tokens, known, j), Bodied)
             [] keyword = "goto" ->
                  LET Wrap(n) == SOk(Goto(n.ast), skip(tokens, n.i, "SEMICOLON"), known)
                  IN PThen(Keeping(next_name(tokens, j), known), Wrap)
             [] keyword = "break" -> SOk(Break, skip(tokens, j, "SEMICOLON"), known)
             [] keyword = "continue" ->
                  SOk(Continue, skip(tokens, j, "SEMICOLON"), known)
             [] keyword = "static" ->
                  LET decor == IF match_value(tokens, j, "IDENTIFIER", "inline")
                               THEN "static inline" ELSE "static"
                      Wrap(d) == [d EXCEPT !.ast = Decorated(decor, @)]
                  IN PThen(self_parse_decl(tokens, known, j), Wrap)
             [] keyword = "switch" -> Parser_parse_switch(tokens, known, j)
             [] OTHER -> Skipped(j)
    ELSE IF peek_seq(tokens, i, 2) = <<"IDENTIFIER", "IDENTIFIER">>
    THEN self_parse_var_decl(
            tokens, Known(known.types \cup {TextOf(tokens[i + 1])}, known.structs), i)
    ELSE IF peek_seq(tokens, i, 3) = <<"IDENTIFIER", "STAR", "IDENTIFIER">>
    THEN self_parse_var_decl(
            tokens, Known(known.types \cup {TextOf(tokens[i + 1])}, known.structs), i)
    ELSE LET Wrap(e) ==
                IF match(tokens, e.i, "SEMICOLON")
                THEN SOk(Expression(e.ast), e.i + 1, known)
                ELSE LET Skipped(s) == SOk(Expression(e.ast), s.i, known)
                     IN PThen(Keeping(Parser_skip_statement(tokens, e.i, 0), known),
                              Skipped)
         IN PThen(self_parse_expr(tokens, known, i), Wrap)

\* Parser.parse_decl()
Parser_parse_decl(tokens, known, i) ==
    IF match_value(tokens, i, "KEYWORD", "typedef")
    THEN LET Typed(t) ==
                LET Named(n) ==
                       SOk(TypeDecl(t.ast, n.ast), skip(tokens, n.i, "SEMICOLON"),
                           Known(t.types \cup {n.ast}, t.structs))
                IN PThen(Keeping(next_name(tokens, t.i), KnownOf(t)), Named)
         IN PThen(self_parse_type(tokens, known, i + 1), Typed)
    ELSE self_parse_var_decl(tokens, known, i)

\* Parser.parse(), from the list result reached
RECURSIVE Parser_parse(_, _, _, _)
Parser_parse(tokens, known, result, i) ==
    IF i >= Len(tokens) THEN SOk(Body(result), i, known)
    ELSE IF peek(tokens, i, 0) \in {"DEFINE", "INCLUDE"}
    THEN Parser_parse(tokens, known, result, i + 1)
    ELSE LET Rest(d) == Parser_parse(tokens, KnownOf(d), Append(result, d.ast), d.i)
         IN PThen(self_parse_decl(tokens, known, i), Rest)

Parser_call(name, tokens, known, i) ==
    CASE name = "parse_type" -> Parser_parse_type(tokens, known, i)
      [] name = "parse_var_decl" -> Parser_parse_var_decl(tokens, known, i)
      [] name = "parse_stmt" -> Parser_parse_stmt(tokens, known, i)
      [] name = "parse_decl" -> Parser_parse_decl(tokens, known, i)
      [] name = "parse_expr" -> Keeping(parse_expr(tokens, known.types, i), known)
      [] name = "parse_atom" -> Keeping(parse_atom(tokens, known.types, i), known)

-----------------------------------------------------------------------------
(* The statements of a block are parsed, as the loop of parse_stmt at      *)
(* lines 252-254 does it: the Parser has matched the opening brace, and    *)
(* parses one statement after the other until it matches the closing one.  *)

MaxStmts == 3       \* statements of the block

\* the statements: an assignment, an expression that lacks its semicolon,
\* an assignment of a comma expression in parentheses, a declaration that
\* begins with a keyword parse_stmt does not handle, a call, an
\* assignment of a comma expression, and a subscript
BlockStatements ==
    {<<"y", "=", "1", ";">>,
     <<"x", "+", "1">>,
     <<"x", "=", "(", "a", ",", "b", ")", ";">>,
     <<"register", "int", "i", ";">>,
     <<"f", "(", "a", ")", ";">>,
     <<"a", "=", "b", ",", "c", "=", "d", ";">>,
     <<"volatile", "x", "[", "1", "]", ";">>}

\* what follows the block
AfterBlock == {<<>>, <<"int", "g", ";">>}

\* the lexemes of the block of the statements stmts, and of what follows
BlockTexts(stmts, after) == <<"{">> \o Flatten(stmts) \o <<"}">> \o after

\* list(Tokenizer(source)) for a text of the lexemes that has no directive
\* and no macro: Tokenizer.__next__ hands on the raw tokens, an identifier
\* that is a keyword as a KEYWORD and NULL as a NULL
PlainTokens(texts) ==
    [k \in 1..Len(texts) |->
        IF RawKind(texts[k]) # "IDENTIFIER" THEN Tok(RawKind(texts[k]), k, texts[k])
        ELSE IF texts[k] \in KEYWORDS THEN Tok("KEYWORD", k, texts[k])
        ELSE IF texts[k] = "NULL" THEN Tok("NULL", k, texts[k])
        ELSE Tok("IDENTIFIER", k, texts[k])]

InitBlock ==
    /\ source_text = <<>> /\ source = <<>> /\ index = 0 /\ cache = <<>> /\ if_stack = <<>>
    /\ macros = EmptyDict /\ status = "done"
    /\ type_map = <<>> /\ functions = <<>> /\ unknown_types = {}
    /\ at_type_map = <<>>
    /\ cache_file = <<>> /\ cache_loaded = "False" /\ ret = <<>>
    /\ at_methods = <<>>
    /\ process = <<>>
    /\ classes = <<>> /\ method = None /\ emitted = None /\ jvm = None
    /\ \E stmts \in SeqsUpTo(BlockStatements, MaxStmts), after \in AfterBlock :
          out = PlainTokens(BlockTexts(stmts, after))
    /\ parser_context = [index |-> 1, types |-> ParserTypes, structs |-> {},
                         exc |-> "", stmts |-> <<>>, done |-> FALSE, last |-> None]

\* where parse_stmt at index i calls skip_statement itself: after a
\* keyword it does not handle, or after an expression that no semicolon
\* follows; None if it does not
RecoveryStart(tokens, known, i) ==
    IF \/ match(tokens, i, "LEFT_BRACE") \/ match(tokens, i, "SEMICOLON")
       \/ /\ peek(tokens, i, 0) = "IDENTIFIER"
          /\ TheValue(peek_value(tokens, i, 0)) \in known.types
       \/ peek_seq(tokens, i, 2) = <<"IDENTIFIER", "COLON">>
       \/ peek(tokens, i, 0) = "DEFINE"
    THEN None
    ELSE IF peek(tokens, i, 0) = "KEYWORD"
    THEN IF TextOf(tokens[i + 1]) \in
               {"const", "struct", "return", "if", "while", "for", "do", "goto",
                "break", "continue", "static", "switch"}
         THEN None ELSE Some(i + 1)
    ELSE IF \/ peek_seq(tokens, i, 2) = <<"IDENTIFIER", "IDENTIFIER">>
            \/ peek_seq(tokens, i, 3) = <<"IDENTIFIER", "STAR", "IDENTIFIER">>
    THEN None
    ELSE LET e == parse_expr(tokens, known.types, i)
         IN IF e.exc = "" /\ ~match(tokens, e.i, "SEMICOLON") THEN Some(e.i)
            ELSE None

\* stmts.append( self.parse_stmt() ) of the loop
block_parse_stmt ==
    /\ parser_context.exc = "" /\ ~parser_context.done
    /\ ~match(out, parser_context.index, "RIGHT_BRACE")
    /\ LET known == Known(parser_context.types, parser_context.structs)
           Parsed(r) ==
              parser_context' =
                 [index |-> r.i, types |-> r.types, structs |-> r.structs,
                  exc |-> r.exc,
                  stmts |-> IF r.exc = "" THEN Append(parser_context.stmts, r.ast)
                            ELSE parser_context.stmts,
                  done |-> FALSE,
                  last |-> Some([at |-> parser_context.index,
                                 recovery |-> RecoveryStart(out, known,
                                                            parser_context.index)])]
       IN Parsed(self_parse_stmt(out, known, parser_context.index))
    /\ UNCHANGED <<tokVars, ttVars, at_methods, process, javaVars>>

\* self.match(TokenType.RIGHT_BRACE) that ends the loop
block_end ==
    /\ parser_context.exc = "" /\ ~parser_context.done
    /\ match(out, parser_context.index, "RIGHT_BRACE")
    /\ parser_context' = [parser_context EXCEPT !.index = @ + 1, !.done = TRUE,
                                                !.last = None]
    /\ UNCHANGED <<tokVars, ttVars, at_methods, process, javaVars>>

NextBlock == block_parse_stmt \/ block_end

SpecBlock == InitBlock /\ [][NextBlock]_vars

\* the nesting depth after the tokens from..to, that is depth before them
RECURSIVE DepthAfter(_, _, _, _)
DepthAfter(tokens, from, to, depth) ==
    IF from > to THEN depth
    ELSE DepthAfter(tokens, from + 1, to,
                    IF KindOf(tokens[from]) \in
                          {"LEFT_PAR", "LEFT_BRACE", "LEFT_BRACKET"}
                    THEN depth + 1
                    ELSE IF KindOf(tokens[from]) \in
                               {"RIGHT_PAR", "RIGHT_BRACE", "RIGHT_BRACKET"}
                    THEN depth - 1
                    ELSE depth)

\* the token that closes the block opened by the first token
BlockEnd(tokens) ==
    CHOOSE p \in 2..Len(tokens) :
       /\ DepthAfter(tokens, 1, p, 0) = 0
       /\ \A q \in 2..(p - 1) : DepthAfter(tokens, 1, q, 0) > 0

\* the semicolons at depth zero of the statement that begins with the
\* token after i, from the token after k on and inside the block
StatementEnds(tokens, i, k) ==
    {p \in (k + 1)..(BlockEnd(tokens) - 1) :
        /\ KindOf(tokens[p]) = "SEMICOLON"
        /\ DepthAfter(tokens, i + 1, p, 0) = 0}

FirstOf(S) == CHOOSE p \in S : \A q \in S : p <= q

\* the statement parsed last was recovered from
Recovered ==
    /\ parser_context.last # None
    /\ TheValue(parser_context.last).recovery # None

\* C25 as claimed: when a statement cannot be parsed, the recovery ends
\* without an exception; it consumes the tokens up to and including the
\* first semicolon at depth zero, so that the next statement is parsed
\* from the token after it; and it never consumes the closing brace of
\* the enclosing block or a token after it, also when the statement has
\* no such semicolon.
C25_RecoveryInStatement ==
    Recovered =>
       LET at == TheValue(parser_context.last).at
           k == TheValue(TheValue(parser_context.last).recovery)
           ends == StatementEnds(out, at, k)
       IN /\ parser_context.exc = ""
          /\ parser_context.index < BlockEnd(out)
          /\ ends # {} => parser_context.index = FirstOf(ends)

-----------------------------------------------------------------------------
(* ParserContext: texts are parsed one after the other by parse and by     *)
(* parse_expr of one ParserContext that has no macros.                     *)

MaxTexts == 3       \* calls of parse and parse_expr

\* the texts given to parse: a typedef, a declaration with a type that is
\* not known, a struct with a tag in a typedef and in a declaration, a
\* struct definition alone, a function with a variable of a type that is
\* not known, and a typedef followed by a statement that is no declaration
ContextTexts ==
    {<<"typedef", "int", "T", ";">>,
     <<"S", "y", ";">>,
     <<"typedef", "struct", "P", "{", "int", "a", ";", "}", "Q", ";">>,
     <<"struct", "R", "{", "T", "b", ";", "}", "r", ";">>,
     <<"struct", "P", "{", "int", "a", ";", "}", ";">>,
     <<"T", "f", "(", "S", "*", "s", ")", "{", "U", "u", ";", "}">>,
     <<"typedef", "int", "V", ";", "1", ";">>}

\* the texts given to parse_expr
ContextExprs == {<<"(", "T", ")", "x">>, <<"(", "U", "*", ")", "x">>, <<"x", "+", "1">>}

\* ParserContext.__init__, and no call so far
InitContext ==
    /\ source_text = <<>> /\ source = <<>> /\ index = 0 /\ cache = <<>> /\ if_stack = <<>>
    /\ macros = EmptyDict /\ out = <<>> /\ status = "idle"
    /\ type_map = <<>> /\ functions = <<>> /\ unknown_types = {}
    /\ at_type_map = <<>>
    /\ cache_file = <<>> /\ cache_loaded = "False" /\ ret = <<>>
    /\ at_methods = <<>>
    /\ process = <<>>
    /\ classes = <<>> /\ method = None /\ emitted = None /\ jvm = None
    /\ parser_context = [types |-> {}, structs |-> {}, ast |-> <<>>, calls |-> 0,
                         last |-> None]

\* the Parser that parse and parse_expr make: Parser(tokenizer), and the
\* update of its sets from the context
Ctx_parser(ctx) == Known(ParserTypes \cup ctx.types, ctx.structs)

\* the lines after the call of the parser, which are reached when it
\* returned r: isinstance(ast, Body) for parse, a C_AST for parse_expr
Ctx_returned(ctx, r) ==
    [types |-> ctx.types \cup r.types,
     structs |-> ctx.structs \cup r.structs,
     ast |-> IF Len(r.ast) = 2 /\ r.ast[1] = "Body" THEN ctx.ast \o r.ast[2]
             ELSE Append(ctx.ast, r.ast)]

\* a call of a method of the context whose parser ended as r: the context
\* after it, and what the call returned or raised
Ctx_call(ctx, r) ==
    [ctx |-> IF r.exc = "" THEN Ctx_returned(ctx, r)
             ELSE [types |-> ctx.types, structs |-> ctx.structs, ast |-> ctx.ast],
     exc |-> r.exc, ast |-> r.ast, types |-> r.types, structs |-> r.structs]

\* ParserContext.parse_expr(text), tokens being list(Tokenizer(text))
Ctx_parse_expr(ctx, tokens) ==
    Ctx_call(ctx, self_parse_expr(tokens, Ctx_parser(ctx), 0))

\* ParserContext.parse(text), tokens being list(Tokenizer(text))
Ctx_parse(ctx, tokens) ==
    Ctx_call(ctx, Parser_parse(tokens, Ctx_parser(ctx), <<>>, 0))

\* the context after a call that ended as c, and the record of the call:
\* the sets of the context before it, and the sets of its parser when it
\* returned or raised
Called(name, text, c) ==
    parser_context' =
       [types |-> c.ctx.types, structs |-> c.ctx.structs, ast |-> c.ctx.ast,
        calls |-> parser_context.calls + 1,
        last |-> Some([call |-> name, text |-> text, exc |-> c.exc, ast |-> c.ast,
                       types |-> c.types, structs |-> c.structs,
                       before |-> Known(parser_context.types,
                                        parser_context.structs)])]

\* ast = parser_context.parse(text); an exception is left to the caller
context_parse ==
    /\ parser_context.calls < MaxTexts
    /\ \E text \in ContextTexts :
          Called("parse", text, Ctx_parse(parser_context, PlainTokens(text)))
    /\ UNCHANGED <<tokVars, ttVars, at_methods, process, javaVars>>

\* ast = parser_context.parse_expr(text); an exception is left to the caller
context_parse_expr ==
    /\ parser_context.calls < MaxTexts
    /\ \E text \in ContextExprs :
          Called("parse_expr", text, Ctx_parse_expr(parser_context, PlainTokens(text)))
    /\ UNCHANGED <<tokVars, ttVars, at_methods, process, javaVars>>

NextContext == context_parse \/ context_parse_expr

SpecContext == InitContext /\ [][NextContext]_vars

LastText == TheValue(parser_context.last)

\* the names of the types of the variables that the statements s[k..] of
\* the body of a function declare by two identifiers, or by two with
\* stars between them
RECURSIVE PointedType(_)
PointedType(type) == IF type[1] = "PointerType" THEN PointedType(type[2]) ELSE type

RECURSIVE VariableTypes(_, _)
VariableTypes(s, k) ==
    IF k > Len(s) THEN {}
    ELSE VariableTypes(s, k + 1) \cup
         (IF /\ s[k] # None /\ s[k][1] = "VarDecl"
             /\ PointedType(s[k][2])[1] = "BaseType"
             /\ ~Contains(PointedType(s[k][2])[2], " ")
          THEN {PointedType(s[k][2])[2]} ELSE {})

\* the names that the declarations d[k..] of a text declare as types: the
\* name of a typedef, and the types of the variables of a function
RECURSIVE DeclaredTypes(_, _)
DeclaredTypes(d, k) ==
    IF k > Len(d) THEN {}
    ELSE DeclaredTypes(d, k + 1) \cup
         (CASE d[k][1] = "TypeDecl" -> {d[k][3]}
            [] d[k][1] = "FunctionDecl" ->
                  IF d[k][5] # None /\ d[k][5][1] = "Body"
                  THEN VariableTypes(d[k][5][2], 1) ELSE {}
            [] OTHER -> {})

\* the tags of the structs that the declarations d[k..] define
RECURSIVE TypeTags(_)
RECURSIVE DeclaredTags(_, _)
TypeTags(type) ==
    CASE type[1] \in {"PointerType", "ConstType", "ArrayType"} -> TypeTags(type[2])
      [] type[1] = "StructType" ->
            (IF Len(type[2]) = 0 THEN {} ELSE {type[2]}) \cup DeclaredTags(type[3], 1)
      [] OTHER -> {}
DeclaredTags(d, k) ==
    IF k > Len(d) THEN {}
    ELSE DeclaredTags(d, k + 1) \cup
         (CASE d[k] = None -> {}
            [] d[k][1] \in {"TypeDecl", "VarDecl", "FunctionDecl"} -> TypeTags(d[k][2])
            [] OTHER -> {})

\* the sets of the context have every member they had before the last call
NothingLost ==
    /\ LastText.before.types \subseteq parser_context.types
    /\ LastText.before.structs \subseteq parser_context.structs

====
